---------------------------- MODULE Spec2Model ----------------------------
(***************************************************************************)
(* A model of the multi-type key-value store: the value model              *)
(* (ValueTypes.h), the storage engine with lazy TTL expiration             *)
(* (StorageEngine), the delegating facade (KeyValueStore) and the          *)
(* reader/writer wrapper (ThreadSafeStore).                                *)
(*                                                                         *)
(* Time is counted in clock ticks, TicksPerSec of them to a second.        *)
(* A std::optional<T> is a sequence of length 0 (nullopt) or 1.            *)
(* The mapping store_ is a function whose DOMAIN is the set of keys that   *)
(* are physically stored.                                                  *)
(***************************************************************************)
EXTENDS Integers, Sequences, FiniteSets, TLC

\* ------------------------------------------------------------------ bounds
NumKeys == 2
NumVals == 2
NumElems == 1
NumFields == 1
NumThreads == 2
MaxLen == 2
MaxBatch == 1
MaxSecs == 2
MaxTtl == 1
TicksPerSec == 2

Keys == 1 .. NumKeys
Vals == 1 .. NumVals
Fields == 1 .. NumFields
Threads == 1 .. NumThreads
Elems == 1 .. NumElems
MaxTime == MaxSecs * TicksPerSec
Ttls == (0 - 1) .. MaxTtl
Batches == UNION {[1 .. n -> Elems] : n \in 0 .. MaxBatch}
FieldBatches == UNION {[1 .. n -> Fields] : n \in 0 .. MaxBatch}

\* --------------------------------------------------------------- ValueTypes
ValueType_STRING == "STRING"
ValueType_LIST == "LIST"
ValueType_SET == "SET"
ValueType_HASH == "HASH"
ValueType == {ValueType_STRING, ValueType_LIST, ValueType_SET, ValueType_HASH}

nullopt == << >>
Some(x) == <<x>>

\* RedisData: the std::variant, one slot per alternative; the slots of the
\* alternatives it does not hold are empty
RedisData(tag, d) ==
    [str |-> IF tag = ValueType_STRING THEN d ELSE 0,
     list |-> IF tag = ValueType_LIST THEN d ELSE << >>,
     set |-> IF tag = ValueType_SET THEN d ELSE {},
     hash |-> IF tag = ValueType_HASH THEN d ELSE [f \in {} |-> 0]]

\* RedisValue(RedisData d): no expiry
RedisValue(tag, d) ==
    [tag |-> tag, data |-> RedisData(tag, d), expiry |-> nullopt]

\* RedisValue(RedisData d, int ttl_seconds): expiry = now + ttl only if ttl > 0
\* the constructor setting a deadline for every ttl_seconds other than 0
RedisValueTtl_Signed(tag, d, ttl_seconds, t) ==
    [tag |-> tag, data |-> RedisData(tag, d),
     expiry |-> IF ttl_seconds # 0 THEN Some(t + ttl_seconds * TicksPerSec)
                ELSE nullopt]

\* the constructor adding ttl_seconds to the clock as if they were ticks
RedisValueTtl_Ticks(tag, d, ttl_seconds, t) ==
    [tag |-> tag, data |-> RedisData(tag, d),
     expiry |-> IF ttl_seconds > 0 THEN Some(t + ttl_seconds) ELSE nullopt]

RedisValueTtl(tag, d, ttl_seconds, t) ==
    [tag |-> tag, data |-> RedisData(tag, d),
     expiry |-> IF ttl_seconds > 0 THEN Some(t + ttl_seconds * TicksPerSec)
                ELSE nullopt]

\* RedisValue::isExpired: has a deadline and now is strictly past it
EntryExpired(e, t) ==
    IF e.expiry = nullopt THEN FALSE ELSE t > e.expiry[1]

\* RedisValue::getType
getType(e) == e.tag

\* ------------------------------------------------- std::unordered_map store_
Find(s, k) == k \in DOMAIN s
Erase(s, k) == [x \in (DOMAIN s) \ {k} |-> s[x]]
Put(s, k, e) == [x \in (DOMAIN s) \cup {k} |-> IF x = k THEN e ELSE s[x]]
EmptyStore == [x \in {} |-> 0]
R(s, r) == [store |-> s, ret |-> r]

\* std::vector helpers
Reverse(q) == [i \in 1 .. Len(q) |-> q[Len(q) + 1 - i]]
Min(a, b) == IF a < b THEN a ELSE b
Max(a, b) == IF a > b THEN a ELSE b
Range(q) == {q[i] : i \in 1 .. Len(q)}

\* ------------------------------------------------------------ StorageEngine
\* isExpired(key): true iff the key is stored and past its deadline; in that
\* case the entry is erased (lazy deletion on access).
\* isExpired erasing only scalar entries
isExpired_ScalarOnly(s, k, t) ==
    IF ~Find(s, k) THEN R(s, FALSE)
    ELSE IF EntryExpired(s[k], t) /\ getType(s[k]) = ValueType_STRING
    THEN R(Erase(s, k), TRUE)
    ELSE R(s, FALSE)

\* isExpired reporting an expired entry without erasing it
isExpired_NoErase(s, k, t) ==
    IF ~Find(s, k) THEN R(s, FALSE)
    ELSE IF EntryExpired(s[k], t) THEN R(s, TRUE)
    ELSE R(s, FALSE)

\* isExpired erasing every expired entry it finds, not only the one asked for
isExpired_Sweeping(s, k, t) ==
    IF ~Find(s, k) THEN R(s, FALSE)
    ELSE IF EntryExpired(s[k], t)
    THEN R([x \in {d \in DOMAIN s : ~EntryExpired(s[d], t)} |-> s[x]], TRUE)
    ELSE R(s, FALSE)

isExpired(s, k, t) ==
    IF ~Find(s, k) THEN R(s, FALSE)
    ELSE IF EntryExpired(s[k], t) THEN R(Erase(s, k), TRUE)
    ELSE R(s, FALSE)

\* ========== STRING OPERATIONS ==========
\* set made subject to the type-mismatch rule of the other writers
set_TypeChecked(s, k, v, ttl_seconds, t) ==
    IF Find(s, k) /\ getType(s[k]) # ValueType_STRING THEN R(s, FALSE)
    ELSE R(Put(s, k, RedisValueTtl(ValueType_STRING, v, ttl_seconds, t)), TRUE)

\* set keeping the deadline of the entry it overwrites
set_KeepsDeadline(s, k, v, ttl_seconds, t) ==
    IF Find(s, k) /\ s[k].expiry # nullopt
    THEN R(Put(s, k, [RedisValue(ValueType_STRING, v) EXCEPT
                         !.expiry = s[k].expiry]), TRUE)
    ELSE R(Put(s, k, RedisValueTtl(ValueType_STRING, v, ttl_seconds, t)), TRUE)

set(s, k, v, ttl_seconds, t) ==
    R(Put(s, k, RedisValueTtl(ValueType_STRING, v, ttl_seconds, t)), TRUE)

get(s, k, t) ==
    LET x == isExpired(s, k, t) IN
    IF x.ret THEN R(x.store, nullopt)
    ELSE IF ~Find(x.store, k) THEN R(x.store, nullopt)
    ELSE IF getType(x.store[k]) # ValueType_STRING THEN R(x.store, nullopt)
    ELSE R(x.store, Some(x.store[k].data.str))

\* ========== LIST OPERATIONS ==========
\* "if (isExpired(key)) store_.erase(key)": isExpired has already erased it
\* lpush inserting the batch at the head in the order given
lpush_BatchOrder(s, k, values, t) ==
    LET x == isExpired(s, k, t)
        s1 == IF x.ret THEN Erase(x.store, k) ELSE x.store
    IN  IF ~Find(s1, k)
        THEN R(Put(s1, k, RedisValue(ValueType_LIST, values)), Len(values))
        ELSE IF getType(s1[k]) # ValueType_LIST THEN R(s1, 0)
        ELSE LET list == values \o s1[k].data.list
             IN  R(Put(s1, k, [s1[k] EXCEPT !.data.list = list]), Len(list))

\* lpush turning a key of another variant into a list
lpush_Coercing(s, k, values, t) ==
    LET x == isExpired(s, k, t)
        s1 == IF x.ret THEN Erase(x.store, k) ELSE x.store
    IN  IF ~Find(s1, k) \/ getType(s1[k]) # ValueType_LIST
        THEN R(Put(s1, k, RedisValue(ValueType_LIST, Reverse(values))),
               Len(values))
        ELSE LET list == Reverse(values) \o s1[k].data.list
             IN  R(Put(s1, k, [s1[k] EXCEPT !.data.list = list]), Len(list))

lpush(s, k, values, t) ==
    LET x == isExpired(s, k, t)
        s1 == IF x.ret THEN Erase(x.store, k) ELSE x.store
    IN  IF ~Find(s1, k)
        THEN R(Put(s1, k, RedisValue(ValueType_LIST, Reverse(values))),
               Len(values))
        ELSE IF getType(s1[k]) # ValueType_LIST THEN R(s1, 0)
        ELSE LET list == Reverse(values) \o s1[k].data.list
             IN  R(Put(s1, k, [s1[k] EXCEPT !.data.list = list]), Len(list))

\* rpush returning the size of the batch
rpush_ReturnsBatch(s, k, values, t) ==
    LET x == isExpired(s, k, t)
        s1 == IF x.ret THEN Erase(x.store, k) ELSE x.store
    IN  IF ~Find(s1, k)
        THEN R(Put(s1, k, RedisValue(ValueType_LIST, values)), Len(values))
        ELSE IF getType(s1[k]) # ValueType_LIST THEN R(s1, 0)
        ELSE LET list == s1[k].data.list \o values
             IN  R(Put(s1, k, [s1[k] EXCEPT !.data.list = list]), Len(values))

\* rpush that does not look at the deadline of the list it appends to
rpush_OntoExpired(s, k, values, t) ==
    IF ~Find(s, k)
    THEN R(Put(s, k, RedisValue(ValueType_LIST, values)), Len(values))
    ELSE IF getType(s[k]) # ValueType_LIST THEN R(s, 0)
    ELSE LET list == s[k].data.list \o values
         IN  R(Put(s, k, [s[k] EXCEPT !.data.list = list]), Len(list))

rpush(s, k, values, t) ==
    LET x == isExpired(s, k, t)
        s1 == IF x.ret THEN Erase(x.store, k) ELSE x.store
    IN  IF ~Find(s1, k)
        THEN R(Put(s1, k, RedisValue(ValueType_LIST, values)), Len(values))
        ELSE IF getType(s1[k]) # ValueType_LIST THEN R(s1, 0)
        ELSE LET list == s1[k].data.list \o values
             IN  R(Put(s1, k, [s1[k] EXCEPT !.data.list = list]), Len(list))

\* lpop taking the element at the tail
lpop_FromTail(s, k, t) ==
    LET x == isExpired(s, k, t) IN
    IF x.ret THEN R(x.store, nullopt)
    ELSE IF ~Find(x.store, k) \/ getType(x.store[k]) # ValueType_LIST
    THEN R(x.store, nullopt)
    ELSE LET list == x.store[k].data.list IN
         IF list = << >> THEN R(x.store, nullopt)
         ELSE LET rest == SubSeq(list, 1, Len(list) - 1) IN
              IF rest = << >>
              THEN R(Erase(x.store, k), Some(list[Len(list)]))
              ELSE R(Put(x.store, k, [x.store[k] EXCEPT !.data.list = rest]),
                     Some(list[Len(list)]))

lpop(s, k, t) ==
    LET x == isExpired(s, k, t) IN
    IF x.ret THEN R(x.store, nullopt)
    ELSE IF ~Find(x.store, k) \/ getType(x.store[k]) # ValueType_LIST
    THEN R(x.store, nullopt)
    ELSE LET list == x.store[k].data.list IN
         IF list = << >> THEN R(x.store, nullopt)
         ELSE IF Tail(list) = << >> THEN R(Erase(x.store, k), Some(Head(list)))
         ELSE R(Put(x.store, k, [x.store[k] EXCEPT !.data.list = Tail(list)]),
                Some(Head(list)))

rpop(s, k, t) ==
    LET x == isExpired(s, k, t) IN
    IF x.ret THEN R(x.store, nullopt)
    ELSE IF ~Find(x.store, k) \/ getType(x.store[k]) # ValueType_LIST
    THEN R(x.store, nullopt)
    ELSE LET list == x.store[k].data.list IN
         IF list = << >> THEN R(x.store, nullopt)
         ELSE LET rest == SubSeq(list, 1, Len(list) - 1) IN
              IF rest = << >>
              THEN R(Erase(x.store, k), Some(list[Len(list)]))
              ELSE R(Put(x.store, k, [x.store[k] EXCEPT !.data.list = rest]),
                     Some(list[Len(list)]))

\* The element at 0-based position i of the vector; a position outside the
\* vector is an out-of-bounds read, which yields the arbitrary value junk.
At(list, i, junk) == IF i >= 0 /\ i < Len(list) THEN list[i + 1] ELSE junk

\* lrange leaving out the element at stop
lrange_StopExclusive(s, k, start, stop, t, junk) ==
    LET x == isExpired(s, k, t) IN
    IF x.ret THEN R(x.store, << >>)
    ELSE IF ~Find(x.store, k) \/ getType(x.store[k]) # ValueType_LIST
    THEN R(x.store, << >>)
    ELSE LET list == x.store[k].data.list
             sz == Len(list)
             start1 == IF start < 0 THEN sz + start ELSE start
             stop1 == IF stop < 0 THEN sz + stop ELSE stop
             start2 == Max(0, Min(start1, sz - 1))
             stop2 == Max(0, Min(stop1, sz - 1))
         IN  IF start2 > stop2 THEN R(x.store, << >>)
             ELSE R(x.store,
                    [i \in 1 .. (stop2 - start2) |->
                        At(list, start2 + i - 1, junk)])

lrange(s, k, start, stop, t, junk) ==
    LET x == isExpired(s, k, t) IN
    IF x.ret THEN R(x.store, << >>)
    ELSE IF ~Find(x.store, k) \/ getType(x.store[k]) # ValueType_LIST
    THEN R(x.store, << >>)
    ELSE LET list == x.store[k].data.list
             sz == Len(list)
             start1 == IF start < 0 THEN sz + start ELSE start
             stop1 == IF stop < 0 THEN sz + stop ELSE stop
             start2 == Max(0, Min(start1, sz - 1))
             stop2 == Max(0, Min(stop1, sz - 1))
         IN  IF start2 > stop2 THEN R(x.store, << >>)
             ELSE R(x.store,
                    [i \in 1 .. (stop2 + 1 - start2) |->
                        At(list, start2 + i - 1, junk)])

\* llen counting the members of a set as well
llen_AnyContainer(s, k, t) ==
    LET x == isExpired(s, k, t) IN
    IF x.ret THEN R(x.store, 0)
    ELSE IF ~Find(x.store, k) THEN R(x.store, 0)
    ELSE IF getType(x.store[k]) = ValueType_SET
    THEN R(x.store, Cardinality(x.store[k].data.set))
    ELSE R(x.store, Len(x.store[k].data.list))

llen(s, k, t) ==
    LET x == isExpired(s, k, t) IN
    IF x.ret THEN R(x.store, 0)
    ELSE IF ~Find(x.store, k) \/ getType(x.store[k]) # ValueType_LIST
    THEN R(x.store, 0)
    ELSE R(x.store, Len(x.store[k].data.list))

\* ========== SET OPERATIONS ==========
\* the insert loop of sadd: [set, added] after inserting members[i..]
RECURSIVE SaddLoop(_, _, _, _)
SaddLoop(members, i, st, added) ==
    IF i > Len(members) THEN [set |-> st, n |-> added]
    ELSE IF members[i] \in st THEN SaddLoop(members, i + 1, st, added)
    ELSE SaddLoop(members, i + 1, st \cup {members[i]}, added + 1)

\* sadd turning a key of another variant into a set
sadd_Coercing(s, k, members, t) ==
    LET x == isExpired(s, k, t)
        s1 == IF x.ret THEN Erase(x.store, k) ELSE x.store
    IN  IF ~Find(s1, k) \/ getType(s1[k]) # ValueType_SET
        THEN LET new_set == Range(members)
             IN  R(Put(s1, k, RedisValue(ValueType_SET, new_set)),
                   Cardinality(new_set))
        ELSE LET l == SaddLoop(members, 1, s1[k].data.set, 0)
             IN  R(Put(s1, k, [s1[k] EXCEPT !.data.set = l.set]), l.n)

\* sadd counting every member of the batch given to an existing set
sadd_CountsBatch(s, k, members, t) ==
    LET x == isExpired(s, k, t)
        s1 == IF x.ret THEN Erase(x.store, k) ELSE x.store
    IN  IF ~Find(s1, k)
        THEN LET new_set == Range(members)
             IN  R(Put(s1, k, RedisValue(ValueType_SET, new_set)),
                   Cardinality(new_set))
        ELSE IF getType(s1[k]) # ValueType_SET THEN R(s1, 0)
        ELSE LET l == SaddLoop(members, 1, s1[k].data.set, 0)
             IN  R(Put(s1, k, [s1[k] EXCEPT !.data.set = l.set]), Len(members))

sadd(s, k, members, t) ==
    LET x == isExpired(s, k, t)
        s1 == IF x.ret THEN Erase(x.store, k) ELSE x.store
    IN  IF ~Find(s1, k)
        THEN LET new_set == Range(members)
             IN  R(Put(s1, k, RedisValue(ValueType_SET, new_set)),
                   Cardinality(new_set))
        ELSE IF getType(s1[k]) # ValueType_SET THEN R(s1, 0)
        ELSE LET l == SaddLoop(members, 1, s1[k].data.set, 0)
             IN  R(Put(s1, k, [s1[k] EXCEPT !.data.set = l.set]), l.n)

\* the erase loop of srem: set.erase(member) returns 0 or 1
RECURSIVE SremLoop(_, _, _, _)
SremLoop(members, i, st, removed) ==
    IF i > Len(members) THEN [set |-> st, n |-> removed]
    ELSE IF members[i] \in st
    THEN SremLoop(members, i + 1, st \ {members[i]}, removed + 1)
    ELSE SremLoop(members, i + 1, st, removed)

\* srem leaving the key in place when its set has become empty
srem_KeepsEmpty(s, k, members, t) ==
    LET x == isExpired(s, k, t) IN
    IF x.ret THEN R(x.store, 0)
    ELSE IF ~Find(x.store, k) \/ getType(x.store[k]) # ValueType_SET
    THEN R(x.store, 0)
    ELSE LET l == SremLoop(members, 1, x.store[k].data.set, 0) IN
         R(Put(x.store, k, [x.store[k] EXCEPT !.data.set = l.set]), l.n)

srem(s, k, members, t) ==
    LET x == isExpired(s, k, t) IN
    IF x.ret THEN R(x.store, 0)
    ELSE IF ~Find(x.store, k) \/ getType(x.store[k]) # ValueType_SET
    THEN R(x.store, 0)
    ELSE LET l == SremLoop(members, 1, x.store[k].data.set, 0) IN
         IF l.set = {} THEN R(Erase(x.store, k), l.n)
         ELSE R(Put(x.store, k, [x.store[k] EXCEPT !.data.set = l.set]), l.n)

sismember(s, k, member, t) ==
    LET x == isExpired(s, k, t) IN
    IF x.ret THEN R(x.store, FALSE)
    ELSE IF ~Find(x.store, k) \/ getType(x.store[k]) # ValueType_SET
    THEN R(x.store, FALSE)
    ELSE R(x.store, member \in x.store[k].data.set)

\* the returned vector lists each member once, in no particular order: a set
smembers(s, k, t) ==
    LET x == isExpired(s, k, t) IN
    IF x.ret THEN R(x.store, {})
    ELSE IF ~Find(x.store, k) \/ getType(x.store[k]) # ValueType_SET
    THEN R(x.store, {})
    ELSE R(x.store, x.store[k].data.set)

scard(s, k, t) ==
    LET x == isExpired(s, k, t) IN
    IF x.ret THEN R(x.store, 0)
    ELSE IF ~Find(x.store, k) \/ getType(x.store[k]) # ValueType_SET
    THEN R(x.store, 0)
    ELSE R(x.store, Cardinality(x.store[k].data.set))

\* ========== HASH OPERATIONS ==========
\* a RedisHash is a function from the fields it holds to their values
EmptyHash == [f \in {} |-> 0]
HashPut(h, field, v) ==
    [f \in (DOMAIN h) \cup {field} |-> IF f = field THEN v ELSE h[f]]
HashErase(h, field) == [f \in (DOMAIN h) \ {field} |-> h[f]]

\* hset storing a hash of the one field written
hset_Replacing(s, k, field, v, t) ==
    LET x == isExpired(s, k, t)
        s1 == IF x.ret THEN Erase(x.store, k) ELSE x.store
    IN  IF ~Find(s1, k)
        THEN R(Put(s1, k, RedisValue(ValueType_HASH, HashPut(EmptyHash, field, v))),
               TRUE)
        ELSE IF getType(s1[k]) # ValueType_HASH THEN R(s1, FALSE)
        ELSE R(Put(s1, k, [s1[k] EXCEPT
                              !.data.hash = HashPut(EmptyHash, field, v)]),
               TRUE)

\* hset storing a fresh RedisValue on every call, which drops the deadline
hset_Reassigning(s, k, field, v, t) ==
    LET x == isExpired(s, k, t)
        s1 == IF x.ret THEN Erase(x.store, k) ELSE x.store
    IN  IF ~Find(s1, k)
        THEN R(Put(s1, k, RedisValue(ValueType_HASH, HashPut(EmptyHash, field, v))),
               TRUE)
        ELSE IF getType(s1[k]) # ValueType_HASH THEN R(s1, FALSE)
        ELSE R(Put(s1, k, RedisValue(ValueType_HASH,
                                     HashPut(s1[k].data.hash, field, v))),
               TRUE)

hset(s, k, field, v, t) ==
    LET x == isExpired(s, k, t)
        s1 == IF x.ret THEN Erase(x.store, k) ELSE x.store
    IN  IF ~Find(s1, k)
        THEN R(Put(s1, k, RedisValue(ValueType_HASH, HashPut(EmptyHash, field, v))),
               TRUE)
        ELSE IF getType(s1[k]) # ValueType_HASH THEN R(s1, FALSE)
        ELSE R(Put(s1, k, [s1[k] EXCEPT !.data.hash = HashPut(s1[k].data.hash, field, v)]),
               TRUE)

hget(s, k, field, t) ==
    LET x == isExpired(s, k, t) IN
    IF x.ret THEN R(x.store, nullopt)
    ELSE IF ~Find(x.store, k) \/ getType(x.store[k]) # ValueType_HASH
    THEN R(x.store, nullopt)
    ELSE IF field \notin DOMAIN x.store[k].data.hash THEN R(x.store, nullopt)
    ELSE R(x.store, Some(x.store[k].data.hash[field]))

\* the erase loop of hdel: hash.erase(field) returns 0 or 1
RECURSIVE HdelLoop(_, _, _, _)
HdelLoop(fields, i, h, deleted) ==
    IF i > Len(fields) THEN [hash |-> h, n |-> deleted]
    ELSE IF fields[i] \in DOMAIN h
    THEN HdelLoop(fields, i + 1, HashErase(h, fields[i]), deleted + 1)
    ELSE HdelLoop(fields, i + 1, h, deleted)

\* hdel returning the size of the batch
hdel_CountsBatch(s, k, fields, t) ==
    LET x == isExpired(s, k, t) IN
    IF x.ret THEN R(x.store, 0)
    ELSE IF ~Find(x.store, k) \/ getType(x.store[k]) # ValueType_HASH
    THEN R(x.store, 0)
    ELSE LET l == HdelLoop(fields, 1, x.store[k].data.hash, 0) IN
         IF DOMAIN l.hash = {} THEN R(Erase(x.store, k), Len(fields))
         ELSE R(Put(x.store, k, [x.store[k] EXCEPT !.data.hash = l.hash]),
                Len(fields))

hdel(s, k, fields, t) ==
    LET x == isExpired(s, k, t) IN
    IF x.ret THEN R(x.store, 0)
    ELSE IF ~Find(x.store, k) \/ getType(x.store[k]) # ValueType_HASH
    THEN R(x.store, 0)
    ELSE LET l == HdelLoop(fields, 1, x.store[k].data.hash, 0) IN
         IF DOMAIN l.hash = {} THEN R(Erase(x.store, k), l.n)
         ELSE R(Put(x.store, k, [x.store[k] EXCEPT !.data.hash = l.hash]), l.n)

hexists(s, k, field, t) ==
    LET x == isExpired(s, k, t) IN
    IF x.ret THEN R(x.store, FALSE)
    ELSE IF ~Find(x.store, k) \/ getType(x.store[k]) # ValueType_HASH
    THEN R(x.store, FALSE)
    ELSE R(x.store, field \in DOMAIN x.store[k].data.hash)

hgetall(s, k, t) ==
    LET x == isExpired(s, k, t) IN
    IF x.ret THEN R(x.store, EmptyHash)
    ELSE IF ~Find(x.store, k) \/ getType(x.store[k]) # ValueType_HASH
    THEN R(x.store, EmptyHash)
    ELSE R(x.store, x.store[k].data.hash)

hlen(s, k, t) ==
    LET x == isExpired(s, k, t) IN
    IF x.ret THEN R(x.store, 0)
    ELSE IF ~Find(x.store, k) \/ getType(x.store[k]) # ValueType_HASH
    THEN R(x.store, 0)
    ELSE R(x.store, Cardinality(DOMAIN x.store[k].data.hash))

\* ========== GENERAL OPERATIONS ==========
\* store_.erase(key) > 0: no expiry check
remove(s, k) == R(Erase(s, k), Find(s, k))

exists(s, k, t) ==
    LET x == isExpired(s, k, t) IN
    IF x.ret THEN R(x.store, FALSE) ELSE R(x.store, Find(x.store, k))

type(s, k, t) ==
    LET x == isExpired(s, k, t) IN
    IF x.ret THEN R(x.store, nullopt)
    ELSE IF ~Find(x.store, k) THEN R(x.store, nullopt)
    ELSE R(x.store, Some(getType(x.store[k])))

\* expire leaving the deadline alone when seconds <= 0
expire_NoClear(s, k, seconds, t) ==
    LET x == isExpired(s, k, t) IN
    IF x.ret THEN R(x.store, FALSE)
    ELSE IF ~Find(x.store, k) THEN R(x.store, FALSE)
    ELSE IF seconds > 0
    THEN R(Put(x.store, k,
               [x.store[k] EXCEPT !.expiry = Some(t + seconds * TicksPerSec)]),
           TRUE)
    ELSE R(x.store, TRUE)

expire(s, k, seconds, t) ==
    LET x == isExpired(s, k, t) IN
    IF x.ret THEN R(x.store, FALSE)
    ELSE IF ~Find(x.store, k) THEN R(x.store, FALSE)
    ELSE IF seconds > 0
    THEN R(Put(x.store, k,
               [x.store[k] EXCEPT !.expiry = Some(t + seconds * TicksPerSec)]),
           TRUE)
    ELSE R(Put(x.store, k, [x.store[k] EXCEPT !.expiry = nullopt]), TRUE)

\* ttl does not call isExpired: it erases when remaining <= 0, and
\* duration_cast<seconds> truncates the remaining ticks to whole seconds
ttl(s, k, t) ==
    IF ~Find(s, k) THEN R(s, 0 - 2)
    ELSE IF s[k].expiry = nullopt THEN R(s, 0 - 1)
    ELSE LET remaining == s[k].expiry[1] - t IN
         IF remaining <= 0 THEN R(Erase(s, k), 0 - 2)
         ELSE R(s, remaining \div TicksPerSec)

\* the orders in which the range-for may visit the stored keys
Orders(s) ==
    {q \in [1 .. Cardinality(DOMAIN s) -> DOMAIN s] : Range(q) = DOMAIN s}

\* keys(): the unexpired keys in iteration order; nothing is erased
keys(s, t, order) ==
    R(s, SelectSeq(order, LAMBDA k : ~EntryExpired(s[k], t)))

RECURSIVE SizeLoop(_, _, _, _)
SizeLoop(s, t, order, i) ==
    IF i > Len(order) THEN 0
    ELSE (IF ~EntryExpired(s[order[i]], t) THEN 1 ELSE 0)
         + SizeLoop(s, t, order, i + 1)

\* size as store_.size(): every stored entry counted
size_Physical(s, t, order) == R(s, Cardinality(DOMAIN s))

size(s, t, order) == R(s, SizeLoop(s, t, order, 1))

\* clear removing only the entries that carry a deadline
clear_KeepsLasting(s) ==
    R([k \in {x \in DOMAIN s : s[x].expiry = nullopt} |-> s[k]], TRUE)

clear(s) == R(EmptyStore, TRUE)

\* cleanupExpired taking an entry at its deadline for expired
cleanupExpired_AtDeadline(s, t, order) ==
    LET expired_keys == SelectSeq(order, LAMBDA k : EntryExpired(s[k], t + 1))
    IN  R([x \in (DOMAIN s) \ Range(expired_keys) |-> s[x]], Len(expired_keys))

\* cleanupExpired: collect the expired keys, then erase each
cleanupExpired(s, t, order) ==
    LET expired_keys == SelectSeq(order, LAMBDA k : EntryExpired(s[k], t))
    IN  R([x \in (DOMAIN s) \ Range(expired_keys) |-> s[x]], Len(expired_keys))

getRawData(s) == s
loadRawData(s, data) == R(data, TRUE)

\* ------------------------------------------------------------------- state
VARIABLES
    store,      \* StorageEngine::store_
    now,        \* std::chrono::system_clock::now(), in ticks
    last,       \* the engine call made last: its name, key, result and how
                \* the key stood before it
    lastSet,    \* per key: <<v, pre>> while the latest write to the key is
                \* set(key, v, 0), which found the key in standing pre
    permit,     \* per thread: the lock it holds on mutex_
    pc,         \* per thread: where it is in a ThreadSafeStore method
    call,       \* per thread: the method it runs and its arguments
    ret,        \* per thread: what store_.<method> returned
    it,         \* per thread: the state of the iterator it holds into store_
    worker,     \* per thread: the loop of testThreadSafety's worker
    main,       \* the thread that joins the workers and prints the size
    obs         \* what a client has noted of its own writes to one key: the
                \* fields it wrote with hset, the TTL it gave with set

engVars == <<last, lastSet, obs>>
lockVars == <<permit, pc, call, ret, it>>
testVars == <<worker, main>>
concVars == <<permit, pc, call, ret, it, worker, main>>
vars ==
    <<store, now, last, lastSet, permit, pc, call, ret, it, worker, main, obs>>

\* how a key stands for an outside observer: absent, expired (stored but past
\* its deadline) or present with a variant
Pre(s, k, t) ==
    IF ~Find(s, k) THEN "absent"
    ELSE IF EntryExpired(s[k], t) THEN "expired"
    ELSE getType(s[k])

\* the variant of the entry physically stored at k, expired or not
PreTag(s, k) == IF Find(s, k) THEN getType(s[k]) ELSE "none"

\* the value a method hands back to its caller, by the method's return type:
\* bool, a count or a number of seconds, std::optional<std::string> or a
\* vector, the type name, the members, the fields; void leaves it empty
NoRet ==
    [b |-> FALSE, n |-> 0, q |-> << >>, y |-> << >>, s |-> {},
     h |-> [f \in {} |-> 0]]
Returned(op, r) ==
    CASE op = "clear" -> NoRet
      [] op \in {"set", "hset", "sismember", "hexists", "exists", "del",
                 "expire"} -> [NoRet EXCEPT !.b = r]
      [] op \in {"get", "hget", "lpop", "rpop", "lrange", "keys"} ->
            [NoRet EXCEPT !.q = r]
      [] op = "type" -> [NoRet EXCEPT !.y = r]
      [] op = "smembers" -> [NoRet EXCEPT !.s = r]
      [] op = "hgetall" -> [NoRet EXCEPT !.h = r]
      [] OTHER -> [NoRet EXCEPT !.n = r]

NoCall == [op |-> "none", key |-> 0, a |-> 0, b |-> 0]
\* no engine call is in progress: the caller has taken the last result
Idle == [op |-> "idle", key |-> 0, pre |-> "absent", tag |-> "none", ret |-> TRUE]

\* the client has noted nothing
NoObs ==
    [on |-> FALSE, n |-> 0, at |-> 0, m |-> [f \in {} |-> 0]]

InitEngine ==
    /\ store = EmptyStore
    /\ now = 0
    /\ last = Idle
    /\ lastSet = [k \in Keys |-> << >>]
    /\ obs = NoObs

InitIdle ==
    /\ permit = [t \in Threads |-> "none"]
    /\ pc = [t \in Threads |-> "idle"]
    /\ call = [t \in Threads |-> NoCall]
    /\ ret = [t \in Threads |-> NoRet]
    /\ it = [t \in Threads |-> "none"]
    /\ worker = [t \in Threads |-> [pc |-> "off", i |-> 0, err |-> FALSE]]
    /\ main = [pc |-> "off", size |-> 0]

\* ------------------------------------------- the engine, called sequentially
\* One engine call: the mapping and the record of the call. wr says that the
\* call is a write to key k.
Call(op, k, r, wr) ==
    /\ last.op = "idle"
    /\ store' = r.store
    /\ last' = [op |-> op, key |-> k, pre |-> Pre(store, k, now),
                tag |-> PreTag(store, k), ret |-> r.ret]
    /\ lastSet' = IF wr /\ k \in Keys THEN [lastSet EXCEPT ![k] = << >>]
                  ELSE lastSet
    /\ UNCHANGED <<now, concVars>>

\* a call of which the client notes nothing
Apply(op, k, r, wr) == Call(op, k, r, wr) /\ UNCHANGED obs

\* the length the list at k would have after pushing values
PushedLen(k, values) ==
    Len(values) + (IF Pre(store, k, now) = ValueType_LIST
                   THEN Len(store[k].data.list) ELSE 0)

Idx == (0 - 1) .. 0
Junk == {0} \cup Elems

Set(k, v, ttl_seconds) ==
    /\ last.op = "idle"
    /\ store' = set(store, k, v, ttl_seconds, now).store
    /\ last' = [op |-> "set", key |-> k, pre |-> Pre(store, k, now),
                tag |-> PreTag(store, k), ret |-> TRUE]
    /\ lastSet' = [lastSet EXCEPT ![k] = IF ttl_seconds = 0
                                         THEN <<v, Pre(store, k, now)>>
                                         ELSE << >>]
    /\ UNCHANGED <<now, concVars, obs>>

Get(k) == Apply("get", k, get(store, k, now), FALSE)

LPush(k, values) ==
    /\ PushedLen(k, values) <= MaxLen
    /\ Apply("lpush", k, lpush(store, k, values, now), TRUE)

RPush(k, values) ==
    /\ PushedLen(k, values) <= MaxLen
    /\ Apply("rpush", k, rpush(store, k, values, now), TRUE)

LPop(k) == Apply("lpop", k, lpop(store, k, now), TRUE)
RPop(k) == Apply("rpop", k, rpop(store, k, now), TRUE)

LRange(k, start, stop, junk) ==
    Apply("lrange", k, lrange(store, k, start, stop, now, junk), FALSE)

LLen(k) == Apply("llen", k, llen(store, k, now), FALSE)
SAdd(k, members) == Apply("sadd", k, sadd(store, k, members, now), TRUE)
SRem(k, members) == Apply("srem", k, srem(store, k, members, now), TRUE)
SIsMember(k, member) ==
    Apply("sismember", k, sismember(store, k, member, now), FALSE)
SMembers(k) == Apply("smembers", k, smembers(store, k, now), FALSE)
SCard(k) == Apply("scard", k, scard(store, k, now), FALSE)
HSet(k, field, v) == Apply("hset", k, hset(store, k, field, v, now), TRUE)
HGet(k, field) == Apply("hget", k, hget(store, k, field, now), FALSE)
HDel(k, fields) == Apply("hdel", k, hdel(store, k, fields, now), TRUE)
HExists(k, field) == Apply("hexists", k, hexists(store, k, field, now), FALSE)
HGetAll(k) == Apply("hgetall", k, hgetall(store, k, now), FALSE)
HLen(k) == Apply("hlen", k, hlen(store, k, now), FALSE)
\* KeyValueStore::del forwards to StorageEngine::remove
Del(k) == Apply("del", k, remove(store, k), TRUE)
Exists(k) == Apply("exists", k, exists(store, k, now), FALSE)
Type(k) == Apply("type", k, type(store, k, now), FALSE)
Expire(k, seconds) == Apply("expire", k, expire(store, k, seconds, now), TRUE)
Ttl(k) == Apply("ttl", k, ttl(store, k, now), FALSE)
KeysOp(order) == Apply("keys", 0, keys(store, now, order), FALSE)
Size(order) == Apply("size", 0, size(store, now, order), FALSE)

Clear ==
    /\ last.op = "idle"
    /\ store' = clear(store).store
    /\ last' = [op |-> "clear", key |-> 0,
                pre |-> IF DOMAIN store = {} THEN "absent" ELSE "stored",
                tag |-> "none", ret |-> TRUE]
    /\ lastSet' = [k \in Keys |-> << >>]
    /\ UNCHANGED <<now, concVars, obs>>

CleanupExpired(order) ==
    Apply("cleanupExpired", 0, cleanupExpired(store, now, order), FALSE)

\* the clock advances by a second
Tick ==
    /\ last.op = "idle"
    /\ now + TicksPerSec <= MaxTime
    /\ now' = now + TicksPerSec
    /\ UNCHANGED <<store, last, lastSet, concVars, obs>>

\* the engine call returns to its caller
Return ==
    /\ last.op # "idle"
    /\ last' = Idle
    /\ UNCHANGED <<store, now, lastSet, concVars, obs>>

EngineInit == InitEngine /\ InitIdle

EngineNext ==
    \/ \E k \in Keys, v \in Vals, s \in Ttls : Set(k, v, s)
    \/ \E k \in Keys : Get(k)
    \/ \E k \in Keys, b \in Batches : LPush(k, b)
    \/ \E k \in Keys, b \in Batches : RPush(k, b)
    \/ \E k \in Keys : LPop(k)
    \/ \E k \in Keys : RPop(k)
    \/ \E k \in Keys, i \in Idx, j \in Idx, junk \in Junk : LRange(k, i, j, junk)
    \/ \E k \in Keys : LLen(k)
    \/ \E k \in Keys, b \in Batches : SAdd(k, b)
    \/ \E k \in Keys, b \in Batches : SRem(k, b)
    \/ \E k \in Keys, v \in Elems : SIsMember(k, v)
    \/ \E k \in Keys : SMembers(k)
    \/ \E k \in Keys : SCard(k)
    \/ \E k \in Keys, f \in Fields, v \in Elems : HSet(k, f, v)
    \/ \E k \in Keys, f \in Fields : HGet(k, f)
    \/ \E k \in Keys, b \in FieldBatches : HDel(k, b)
    \/ \E k \in Keys, f \in Fields : HExists(k, f)
    \/ \E k \in Keys : HGetAll(k)
    \/ \E k \in Keys : HLen(k)
    \/ \E k \in Keys : Del(k)
    \/ \E k \in Keys : Exists(k)
    \/ \E k \in Keys : Type(k)
    \/ \E k \in Keys, s \in Ttls : Expire(k, s)
    \/ \E k \in Keys : Ttl(k)
    \/ \E o \in Orders(store) : KeysOp(o)
    \/ \E o \in Orders(store) : Size(o)
    \/ Clear
    \/ \E o \in Orders(store) : CleanupExpired(o)
    \/ Tick
    \/ Return

EngineSpec == EngineInit /\ [][EngineNext]_vars

\* ------------------------------------------ one key, one client that takes notes
FocusKeys == {1}

\* a write of which the client keeps no note: its notes so far are void
Forget(op, k, r) == Call(op, k, r, TRUE) /\ obs' = NoObs

\* ----------------------------------------------------- deadlines on one key
MaxTicks == 6
TtlSecs == (0 - 1) .. MaxSecs

\* the clock advances by one tick, a fraction of a second
Tock ==
    /\ last.op = "idle"
    /\ now < MaxTicks
    /\ now' = now + 1
    /\ UNCHANGED <<store, last, lastSet, concVars, obs>>

\* set(k, v, ttl_seconds), noted by the client: the TTL it gave and when
SetNoted(k, v, ttl_seconds) ==
    /\ Call("set", k, set(store, k, v, ttl_seconds, now), TRUE)
    /\ obs' = [NoObs EXCEPT !.on = TRUE, !.n = ttl_seconds, !.at = now]

TtlNext ==
    \/ \E k \in FocusKeys, v \in Vals, n \in TtlSecs : SetNoted(k, v, n)
    \/ \E k \in FocusKeys : Ttl(k)
    \/ \E k \in FocusKeys : Get(k)
    \/ \E k \in FocusKeys : Exists(k)
    \/ \E k \in FocusKeys : Type(k)
    \/ \E k \in FocusKeys, s \in TtlSecs :
          Forget("expire", k, expire(store, k, s, now))
    \/ \E k \in FocusKeys : Forget("del", k, remove(store, k))
    \/ Forget("clear", 0, clear(store))
    \/ Tock
    \/ Return

TtlSpec == EngineInit /\ [][TtlNext]_vars

\* ----------------------------------------- lists, sets and hashes on one key
NumMembers == 3
MaxListLen == 3
MaxArgs == 2
MaxIndex == 5
Members == 1 .. NumMembers
MemberBatches == UNION {[1 .. n -> Members] : n \in 0 .. MaxArgs}
WideIdx == (0 - MaxIndex) .. MaxIndex

ContainerNext ==
    \/ \E k \in FocusKeys, values \in MemberBatches :
          /\ PushedLen(k, values) <= MaxListLen
          /\ Apply("lpush", k, lpush(store, k, values, now), TRUE)
    \/ \E k \in FocusKeys, values \in MemberBatches :
          /\ PushedLen(k, values) <= MaxListLen
          /\ Apply("rpush", k, rpush(store, k, values, now), TRUE)
    \/ \E k \in FocusKeys : LPop(k)
    \/ \E k \in FocusKeys : RPop(k)
    \/ \E k \in FocusKeys, i \in WideIdx, j \in WideIdx,
          junk \in {0} \cup Members : LRange(k, i, j, junk)
    \/ \E k \in FocusKeys : LLen(k)
    \/ \E k \in FocusKeys, members \in MemberBatches : SAdd(k, members)
    \/ \E k \in FocusKeys, members \in MemberBatches : SRem(k, members)
    \/ \E k \in FocusKeys, m \in Members : SIsMember(k, m)
    \/ \E k \in FocusKeys : SMembers(k)
    \/ \E k \in FocusKeys : SCard(k)
    \/ \E k \in FocusKeys, f \in Members, v \in Vals : HSet(k, f, v)
    \/ \E k \in FocusKeys, fields \in MemberBatches : HDel(k, fields)
    \/ \E k \in FocusKeys, f \in Members : HGet(k, f)
    \/ \E k \in FocusKeys, f \in Members : HExists(k, f)
    \/ \E k \in FocusKeys : HGetAll(k)
    \/ \E k \in FocusKeys : HLen(k)
    \/ \E k \in FocusKeys, v \in Vals, s \in Ttls : Set(k, v, s)
    \/ \E k \in FocusKeys : Get(k)
    \/ \E k \in FocusKeys : Del(k)
    \/ \E k \in FocusKeys : Exists(k)
    \/ \E k \in FocusKeys : Type(k)
    \/ \E order \in Orders(store) : KeysOp(order)
    \/ \E k \in FocusKeys, s \in {0, MaxTtl} : Expire(k, s)
    \/ Tick
    \/ Return

ContainerSpec == EngineInit /\ [][ContainerNext]_vars

\* ------------------------------------------------------- hashes on one key
NumHashFields == 2
HFields == 1 .. NumHashFields

\* hset(k, field, v), noted by the client: the fields it has written, one hset
\* after another, since k was absent, was found expired or held the hash it
\* started from
HSetNoted(k, field, v) ==
    /\ Call("hset", k, hset(store, k, field, v, now), TRUE)
    /\ obs' =
          IF Pre(store, k, now) = ValueType_HASH
          THEN [NoObs EXCEPT
                  !.on = TRUE,
                  !.m = HashPut(IF obs.on THEN obs.m ELSE store[k].data.hash,
                                field, v)]
          ELSE IF Pre(store, k, now) \in {"absent", "expired"}
          THEN [NoObs EXCEPT !.on = TRUE, !.m = HashPut(EmptyHash, field, v)]
          ELSE NoObs

HashNext ==
    \/ \E k \in FocusKeys, f \in HFields, v \in Vals : HSetNoted(k, f, v)
    \/ \E k \in FocusKeys, f \in HFields : HGet(k, f)
    \/ \E k \in FocusKeys, f \in HFields : HExists(k, f)
    \/ \E k \in FocusKeys : HLen(k)
    \/ \E k \in FocusKeys : HGetAll(k)
    \/ \E k \in FocusKeys, f \in HFields :
          Forget("hdel", k, hdel(store, k, <<f>>, now))
    \/ \E k \in FocusKeys, s \in {0, MaxTtl} :
          Forget("expire", k, expire(store, k, s, now))
    \/ \E k \in FocusKeys, v \in Vals :
          Forget("set", k, set(store, k, v, 0, now))
    \/ \E k \in FocusKeys : Forget("del", k, remove(store, k))
    \/ Tick
    \/ Return

HashSpec == EngineInit /\ [][HashNext]_vars

\* ---------------------------------------------------------- ThreadSafeStore
\* KeyValueStore: every method forwards to the StorageEngine method of the
\* same name (del to remove). A call is [op, key, a, b]; a list, member or
\* field argument is the one-element batch <<a>>.
Delegate(c, s, t, order) ==
    CASE c.op = "set" -> set(s, c.key, c.a, c.b, t)
      [] c.op = "get" -> get(s, c.key, t)
      [] c.op = "lpush" -> lpush(s, c.key, <<c.a>>, t)
      [] c.op = "rpush" -> rpush(s, c.key, <<c.a>>, t)
      [] c.op = "lpop" -> lpop(s, c.key, t)
      [] c.op = "rpop" -> rpop(s, c.key, t)
      [] c.op = "lrange" -> lrange(s, c.key, c.a, c.b, t, 0)
      [] c.op = "llen" -> llen(s, c.key, t)
      [] c.op = "sadd" -> sadd(s, c.key, <<c.a>>, t)
      [] c.op = "srem" -> srem(s, c.key, <<c.a>>, t)
      [] c.op = "sismember" -> sismember(s, c.key, c.a, t)
      [] c.op = "smembers" -> smembers(s, c.key, t)
      [] c.op = "scard" -> scard(s, c.key, t)
      [] c.op = "hset" -> hset(s, c.key, c.a, c.b, t)
      [] c.op = "hget" -> hget(s, c.key, c.a, t)
      [] c.op = "hdel" -> hdel(s, c.key, <<c.a>>, t)
      [] c.op = "hexists" -> hexists(s, c.key, c.a, t)
      [] c.op = "hgetall" -> hgetall(s, c.key, t)
      [] c.op = "hlen" -> hlen(s, c.key, t)
      [] c.op = "del" -> remove(s, c.key)
      [] c.op = "exists" -> exists(s, c.key, t)
      [] c.op = "type" -> type(s, c.key, t)
      [] c.op = "expire" -> expire(s, c.key, c.a, t)
      [] c.op = "ttl" -> ttl(s, c.key, t)
      [] c.op = "keys" -> keys(s, t, order)
      [] c.op = "size" -> size(s, t, order)
      [] c.op = "clear" -> clear(s)

\* the lock each ThreadSafeStore method takes: std::unique_lock (exclusive)
\* or std::shared_lock (shared)
LockMode_ExpireShared(op) ==
    IF op \in {"set", "lpush", "rpush", "lpop", "rpop", "sadd", "srem", "hset",
               "hdel", "del", "clear"}
    THEN "exclusive" ELSE "shared"

LockMode_SetShared(op) ==
    IF op \in {"lpush", "rpush", "lpop", "rpop", "sadd", "srem", "hset",
               "hdel", "del", "expire", "clear"}
    THEN "exclusive" ELSE "shared"

LockMode(op) ==
    IF op \in {"set", "lpush", "rpush", "lpop", "rpop", "sadd", "srem", "hset",
               "hdel", "del", "expire", "clear"}
    THEN "exclusive" ELSE "shared"

\* std::shared_mutex: lock() is granted when no thread holds the mutex,
\* lock_shared() when no thread holds it exclusively
CanLock(t) == \A u \in Threads : permit[u] = "none"
CanLockShared(t) == \A u \in Threads : permit[u] # "exclusive"

\* two entries, or two mappings, are the same
SameEntry(e1, e2) ==
    /\ e1.tag = e2.tag
    /\ e1.expiry = e2.expiry
    /\ e1.data = e2.data
SameStore(s1, s2) ==
    /\ DOMAIN s1 = DOMAIN s2
    /\ \A k \in DOMAIN s1 : SameEntry(s1[k], s2[k])

\* A change of the mapping from s1 to s2 invalidates the iterator that a
\* thread running call c holds: an insertion may rehash (all iterators), an
\* erase or a write invalidates the iterators to that element, and keys() and
\* size() walk every element.
Invalidates(s1, s2, c) ==
    \/ (DOMAIN s2) \ (DOMAIN s1) # {}
    \/ c.key = 0 /\ ~SameStore(s1, s2)
    \/ c.key # 0 /\ Find(s1, c.key) /\ ~Find(s2, c.key)
    \/ c.key # 0 /\ Find(s1, c.key) /\ Find(s2, c.key)
          /\ ~SameEntry(s1[c.key], s2[c.key])

\* the iterators of the threads other than t after t changed s1 into s2
Iterators(t, s1, s2) ==
    [u \in Threads |->
        IF u = t THEN "none"
        ELSE IF it[u] = "valid" /\ Invalidates(s1, s2, call[u]) THEN "dangling"
        ELSE it[u]]

\* what a read through a dangling iterator may deliver instead of r: bytes
\* that were never stored under the key
Garbage(op, r) ==
    CASE op \in {"get", "hget", "lpop", "rpop", "lrange", "keys"} -> <<0 - 1>>
      [] op = "type" -> <<"?">>
      [] op = "smembers" -> {0 - 1}
      [] op = "hgetall" -> [f \in {0 - 1} |-> 0 - 1]
      [] op \in {"set", "hset", "sismember", "hexists", "exists", "del",
                 "expire", "clear"} -> ~r
      [] OTHER -> 0 - 9

\* the calls the threads make
ConcKeys == {1}
ReadOps ==
    {"get", "llen", "sismember", "smembers", "scard", "hget", "hexists",
     "hgetall", "hlen", "exists", "type", "ttl"}
WriteOps ==
    {"lpush", "rpush", "lpop", "rpop", "sadd", "srem", "hset", "hdel", "del"}
ConcCalls ==
    {[op |-> "set", key |-> k, a |-> 1, b |-> s] : k \in ConcKeys, s \in {0, MaxTtl}}
    \cup {[op |-> o, key |-> k, a |-> 1, b |-> 1] : o \in WriteOps, k \in ConcKeys}
    \cup {[op |-> o, key |-> k, a |-> 1, b |-> 0] : o \in ReadOps, k \in ConcKeys}
    \cup {[op |-> "lrange", key |-> k, a |-> 0, b |-> 0 - 1] : k \in ConcKeys}
    \cup {[op |-> "expire", key |-> k, a |-> s, b |-> 0] : k \in ConcKeys, s \in {0, MaxTtl}}
    \cup {[op |-> o, key |-> 0, a |-> 0, b |-> 0] : o \in {"keys", "size", "clear"}}

\* the length the list at c.key can reach once the pushes already called and
\* the push c have run
PushedTo(c) ==
    1 + (IF Find(store, c.key) /\ store[c.key].tag = ValueType_LIST
         THEN Len(store[c.key].data.list) ELSE 0)
      + Cardinality({u \in Threads : /\ pc[u] \in {"lock", "engine"}
                                     /\ call[u].op \in {"lpush", "rpush"}
                                     /\ call[u].key = c.key})

\* the orders in which operation op may walk the mapping s; only keys() and
\* size() walk it
OrdersFor(op, s) == IF op \in {"keys", "size"} THEN Orders(s) ELSE {<< >>}

\* a thread enters a ThreadSafeStore method
Enter(t, c) ==
    /\ pc[t] = "idle"
    /\ c.op \in {"lpush", "rpush"} => PushedTo(c) <= MaxLen
    /\ pc' = [pc EXCEPT ![t] = "lock"]
    /\ call' = [call EXCEPT ![t] = c]
    /\ ret' = [ret EXCEPT ![t] = NoRet]
    /\ UNCHANGED <<store, now, engVars, permit, it>>

\* a client thread calls any method
Invoke(t, c) ==
    /\ worker[t].pc = "off"
    /\ Enter(t, c)
    /\ UNCHANGED testVars

\* std::unique_lock<std::shared_mutex> lock(mutex_) or
\* std::shared_lock<std::shared_mutex> lock(mutex_)
Acquire(t) ==
    /\ pc[t] = "lock"
    /\ IF LockMode(call[t].op) = "exclusive" THEN CanLock(t) ELSE CanLockShared(t)
    /\ permit' = [permit EXCEPT ![t] = LockMode(call[t].op)]
    /\ pc' = [pc EXCEPT ![t] = "engine"]
    /\ UNCHANGED <<store, now, engVars, call, ret, it, testVars>>

\* a method of the exclusive kind runs store_.<method>
EngineWrite(t) ==
    /\ pc[t] = "engine"
    /\ LockMode(call[t].op) = "exclusive"
    /\ pc' = [pc EXCEPT ![t] = "unlock"]
    /\ \E order \in OrdersFor(call[t].op, store) :
          LET r == Delegate(call[t], store, now, order) IN
          /\ store' = r.store
          /\ ret' = [ret EXCEPT ![t] = Returned(call[t].op, r.ret)]
          /\ it' = Iterators(t, store, r.store)
    /\ UNCHANGED <<now, engVars, permit, call, testVars>>

\* a method of the shared kind enters store_.<method> and takes an iterator
\* into the mapping (store_.find(key), or store_.begin() in keys and size)
EngineFind(t) ==
    /\ pc[t] = "engine"
    /\ LockMode(call[t].op) = "shared"
    /\ it' = [it EXCEPT ![t] = "valid"]
    /\ pc' = [pc EXCEPT ![t] = "found"]
    /\ UNCHANGED <<store, now, engVars, permit, call, ret, testVars>>

\* it goes on through the iterator: the expiry check with its erase, and the
\* read. Through a dangling iterator this is undefined behaviour: the read
\* delivers what the engine would deliver now, or garbage.
EngineRead(t) ==
    /\ pc[t] = "found"
    /\ pc' = [pc EXCEPT ![t] = "unlock"]
    /\ \E order \in OrdersFor(call[t].op, store), ub \in {"stale", "garbage"} :
          LET r == Delegate(call[t], store, now, order) IN
          /\ it[t] = "valid" => ub = "stale"
          /\ store' = r.store
          /\ ret' = [ret EXCEPT ![t] =
                       Returned(call[t].op, IF ub = "garbage"
                                            THEN Garbage(call[t].op, r.ret)
                                            ELSE r.ret)]
          /\ it' = Iterators(t, store, r.store)
    /\ UNCHANGED <<now, engVars, permit, call, testVars>>

\* the lock's destructor as the method returns
Unlock_KeepsPermit(t) ==
    /\ pc[t] = "unlock"
    /\ pc' = [pc EXCEPT ![t] = "idle"]
    /\ permit' = permit
    /\ UNCHANGED <<store, now, engVars, it>>

Unlock(t) ==
    /\ pc[t] = "unlock"
    /\ pc' = [pc EXCEPT ![t] = "idle"]
    /\ permit' = [permit EXCEPT ![t] = "none"]
    /\ UNCHANGED <<store, now, engVars, it>>

\* the method returns to a caller that drops the result
Release(t) ==
    /\ Unlock(t)
    /\ worker[t].pc = "off"
    /\ call' = [call EXCEPT ![t] = NoCall]
    /\ ret' = [ret EXCEPT ![t] = NoRet]
    /\ UNCHANGED testVars

\* the clock advances by a second while the threads run
Clock ==
    /\ now + TicksPerSec <= MaxTime
    /\ now' = now + TicksPerSec
    /\ UNCHANGED <<store, engVars, concVars>>

Init == InitEngine /\ InitIdle

Next ==
    \/ \E t \in Threads, c \in ConcCalls : Invoke(t, c)
    \/ \E t \in Threads : Acquire(t)
    \/ \E t \in Threads : EngineWrite(t)
    \/ \E t \in Threads : EngineFind(t)
    \/ \E t \in Threads : EngineRead(t)
    \/ \E t \in Threads : Release(t)
    \/ Clock

Spec == Init /\ [][Next]_vars

\* every thread that can take a step of its own is scheduled (each such step
\* moves the thread's pc); the lock decides when a request is granted
Step(t) == EngineWrite(t) \/ EngineFind(t) \/ EngineRead(t) \/ Release(t)
FairSpec == Spec /\ \A t \in Threads : WF_pc(Step(t))

\* ------------------------------------- maintenance through getStore()
\* the methods the threads call next to the maintenance operations
MaintCalls == {c \in ConcCalls : c.op \in {"set", "get", "size"}}

\* the mappings a persistence layer may hand to loadRawData
Snapshots ==
    {EmptyStore, [k \in ConcKeys |-> RedisValue(ValueType_STRING, 1)]}

\* a thread calls store.getStore().getStorage() and on it cleanupExpired() or
\* loadRawData(data): ThreadSafeStore has no method for either, and getStore()
\* takes no lock
GetStore(t, op) ==
    /\ worker[t].pc = "off"
    /\ pc[t] = "idle"
    /\ pc' = [pc EXCEPT ![t] = "raw"]
    /\ call' = [call EXCEPT ![t] = [op |-> op, key |-> 0, a |-> 0, b |-> 0]]
    /\ UNCHANGED <<store, now, engVars, permit, ret, it, testVars>>

\* cleanupExpired() or loadRawData(data) runs on the StorageEngine and returns
RawRun(t) ==
    /\ pc[t] = "raw"
    /\ \E order \in Orders(store), data \in Snapshots :
          LET r == IF call[t].op = "cleanupExpired"
                   THEN cleanupExpired(store, now, order)
                   ELSE loadRawData(store, data)
          IN  /\ store' = r.store
              /\ it' = Iterators(t, store, r.store)
    /\ pc' = [pc EXCEPT ![t] = "idle"]
    /\ call' = [call EXCEPT ![t] = NoCall]
    /\ UNCHANGED <<now, engVars, permit, ret, testVars>>

MaintNext ==
    \/ \E t \in Threads, c \in MaintCalls : Invoke(t, c)
    \/ \E t \in Threads : Acquire(t)
    \/ \E t \in Threads : EngineWrite(t)
    \/ \E t \in Threads : EngineFind(t)
    \/ \E t \in Threads : EngineRead(t)
    \/ \E t \in Threads : Release(t)
    \/ \E t \in Threads, op \in {"cleanupExpired", "loadRawData"} :
          GetStore(t, op)
    \/ \E t \in Threads : RawRun(t)
    \/ Clock

MaintSpec == Init /\ [][MaintNext]_vars

\* ------------------------------------------------------- testThreadSafety
OpsPerThread == 2
PriorKey == 0 - 1

\* the key "thread:<id>:count:<i>" and the value std::to_string(i)
WKey(id, i) == (id - 1) * OpsPerThread + i + 1
WVal(i) == i + 1

\* what the tests that ran before may have left in the store
PriorStores ==
    {EmptyStore,
     [k \in {PriorKey} |-> RedisValue(ValueType_STRING, 1)]}

\* store.set(key, std::to_string(i))
WorkerSet(t) ==
    /\ worker[t].pc = "set"
    /\ Enter(t, [op |-> "set", key |-> WKey(t, worker[t].i),
                 a |-> WVal(worker[t].i), b |-> 0])
    /\ worker' = [worker EXCEPT ![t].pc = "get"]
    /\ UNCHANGED main

\* auto val = store.get(key)
WorkerGet(t) ==
    /\ worker[t].pc = "get"
    /\ Enter(t, [op |-> "get", key |-> WKey(t, worker[t].i), a |-> 0, b |-> 0])
    /\ worker' = [worker EXCEPT ![t].pc = "verify"]
    /\ UNCHANGED main

\* if (!val || *val != std::to_string(i)) ERROR; i++
WorkerVerify(t) ==
    /\ worker[t].pc = "verify"
    /\ pc[t] = "idle"
    /\ worker' = [worker EXCEPT
          ![t] = [pc |-> IF worker[t].i + 1 < OpsPerThread THEN "set" ELSE "done",
                  i |-> worker[t].i + 1,
                  err |-> \/ worker[t].err
                          \/ ret[t].q = nullopt
                          \/ ret[t].q[1] # WVal(worker[t].i)]]
    /\ UNCHANGED <<store, now, engVars, lockVars, main>>

\* set or get returns to the worker
WorkerReturn(t) ==
    /\ Unlock(t)
    /\ worker[t].pc # "off"
    /\ call' = [call EXCEPT ![t] = NoCall]
    /\ UNCHANGED <<ret, testVars>>

\* after the join main prints store.size(); no other thread is running
MainSize ==
    /\ main.pc = "join"
    /\ \A t \in Threads : worker[t].pc = "done"
    /\ \E order \in Orders(store) :
          LET r == size(store, now, order) IN
          /\ store' = r.store
          /\ main' = [pc |-> "done", size |-> r.ret]
    /\ UNCHANGED <<now, engVars, lockVars, worker>>

WorkerInit ==
    /\ store \in PriorStores
    /\ now = 0
    /\ last = Idle
    /\ lastSet = [k \in Keys |-> << >>]
    /\ permit = [t \in Threads |-> "none"]
    /\ pc = [t \in Threads |-> "idle"]
    /\ call = [t \in Threads |-> NoCall]
    /\ ret = [t \in Threads |-> NoRet]
    /\ it = [t \in Threads |-> "none"]
    /\ worker = [t \in Threads |-> [pc |-> "set", i |-> 0, err |-> FALSE]]
    /\ main = [pc |-> "join", size |-> 0]
    /\ obs = NoObs

WorkerNext ==
    \/ \E t \in Threads : WorkerSet(t)
    \/ \E t \in Threads : WorkerGet(t)
    \/ \E t \in Threads : WorkerVerify(t)
    \/ \E t \in Threads : Acquire(t)
    \/ \E t \in Threads : EngineWrite(t)
    \/ \E t \in Threads : EngineFind(t)
    \/ \E t \in Threads : EngineRead(t)
    \/ \E t \in Threads : WorkerReturn(t)
    \/ MainSize
    \/ Clock

WorkerSpec == WorkerInit /\ [][WorkerNext]_vars

\* ------------------------------------------------------------------ claims
\* C1: every change of the key->entry mapping, the removal of an expired
\* entry included, is made by a thread that holds the exclusive permit and is
\* inside the engine; no operation running under the shared permit changes it.
C1_MutationOnlyExclusive ==
    [][~SameStore(store, store') =>
          \E t \in Threads : /\ permit[t] = "exclusive"
                             /\ pc[t] = "engine"
                             /\ pc'[t] = "unlock"]_vars

\* C2: while a thread holds the shared permit and is reading the mapping
\* through its iterator, no step of another thread changes the mapping.
C2_SnapshotWhileShared ==
    [][\A t \in Threads :
          (permit[t] = "shared" /\ pc[t] = "found" /\ pc'[t] = "found")
             => SameStore(store, store')]_vars

\* the operations C3 calls mutating
MutatingOps ==
    {"set", "lpush", "rpush", "lpop", "rpop", "sadd", "srem", "hset", "hdel",
     "del", "expire", "clear"}

\* C3: a thread that executes a mutating operation inside the engine holds
\* the exclusive permit and no other thread holds any permit; whenever a
\* thread holds the exclusive permit no other thread holds a permit, so shared
\* permits coexist only with shared permits.
C3_ReaderWriterExclusion ==
    /\ \A t \in Threads :
          (pc[t] = "engine" /\ call[t].op \in MutatingOps) =>
             /\ permit[t] = "exclusive"
             /\ \A u \in Threads \ {t} : permit[u] = "none"
    /\ \A t \in Threads, u \in Threads :
          (t # u /\ permit[t] = "exclusive") => permit[u] = "none"

\* a thread is inside expire with the exclusive permit while another thread,
\* which called get, waits for the shared one
C3_Witness ==
    \E t \in Threads, u \in Threads :
       /\ pc[t] = "engine" /\ call[t].op = "expire" /\ permit[t] = "exclusive"
       /\ pc[u] = "lock" /\ call[u].op = "get"

\* C4: every operation takes effect atomically at one point between its call
\* and its return: the result it returns and the mapping it leaves are those
\* of the StorageEngine operation applied to the mapping at that point, so the
\* execution equals the sequential one in the order of these points.
C4_Linearizable ==
    [][\A t \in Threads :
          (pc[t] \in {"engine", "found"} /\ pc'[t] = "unlock") =>
             \E order \in OrdersFor(call[t].op, store) :
                LET r == Delegate(call[t], store, now, order) IN
                /\ ret'[t] = Returned(call[t].op, r.ret)
                /\ SameStore(store', r.store)]_vars

\* the deadline of entry e lies strictly before time t
DeadlinePassed(e, t) == e.expiry # nullopt /\ e.expiry[1] < t

ExpiryReads ==
    {"get", "hget", "lrange", "smembers", "hgetall", "llen", "scard", "hlen",
     "sismember", "hexists", "exists", "type", "ttl"}

\* what each read returns for a key that is not there
AbsentRet(op) ==
    CASE op \in {"get", "hget", "type"} -> nullopt
      [] op = "lrange" -> << >>
      [] op = "smembers" -> {}
      [] op = "hgetall" -> EmptyHash
      [] op \in {"llen", "scard", "hlen"} -> 0
      [] op \in {"sismember", "hexists", "exists"} -> FALSE
      [] op = "ttl" -> 0 - 2

\* C5: in testThreadSafety, where the threads run set(k, v) then get(k) on
\* keys of their own without TTL, no worker sees an error, every get that has
\* returned delivers the value the same thread just set, and the size() read
\* after the join counts every key written (and what was stored before).
C5_DisjointKeysRoundTrip ==
    /\ \A t \in Threads :
          /\ ~worker[t].err
          /\ (worker[t].pc = "verify" /\ pc[t] = "idle")
                => ret[t].q = Some(WVal(worker[t].i))
    /\ main.pc = "done" =>
          /\ main.size = NumThreads * OpsPerThread
                            + Cardinality(DOMAIN store \cap {PriorKey})
          /\ \A t \in Threads, i \in 0 .. OpsPerThread - 1 :
                Find(store, WKey(t, i))

\* every worker verified its last get and main counted the keys
C5_Witness ==
    /\ main.pc = "done"
    /\ main.size = NumThreads * OpsPerThread + 1
    /\ \A t \in Threads : worker[t].pc = "done" /\ worker[t].i = OpsPerThread

\* no thread is stuck: when some operation has started, some thread can step
NoDeadlock ==
    (\E t \in Threads : pc[t] # "idle") =>
       \E t \in Threads : ENABLED (Acquire(t) \/ Step(t))

\* C6: an operation holds no permit before its one acquisition and after its
\* return and holds one permit in between; a permit is only taken by a
\* waiting thread that holds none and only given back at the return; no
\* deadlock is reachable; and if the lock grants every request, every
\* operation that has started completes.
C6_OnePermitNoDeadlock ==
    /\ [](\A t \in Threads :
            /\ pc[t] \in {"idle", "lock"} => permit[t] = "none"
            /\ pc[t] \in {"engine", "found", "unlock"} => permit[t] # "none")
    /\ [][\A t \in Threads :
            permit'[t] # permit[t] =>
               \/ permit[t] = "none" /\ pc[t] = "lock" /\ pc'[t] = "engine"
               \/ permit'[t] = "none" /\ pc[t] = "unlock" /\ pc'[t] = "idle"]_vars
    /\ []NoDeadlock
    /\ (\A t \in Threads : []<>(pc[t] # "lock"))
          => \A t \in Threads : (pc[t] # "idle" ~> pc[t] = "idle")

\* a thread that called set waits for the exclusive permit while another
\* thread reads under the shared one
C6_Witness ==
    \E t \in Threads, u \in Threads :
       /\ pc[t] = "lock" /\ call[t].op = "set"
       /\ pc[u] = "found" /\ permit[u] = "shared"

\* C12: after set(k, v, n) with n >= 1, ttl(k) at the same instant is in 1..n,
\* no later ttl(k) exceeds n, and once the deadline has passed get(k) is absent
\* and ttl(k) is -2
C12_TtlAfterSet ==
    \A k \in FocusKeys :
       (obs.on /\ obs.n >= 1) =>
          /\ now = obs.at => ttl(store, k, now).ret \in 1 .. obs.n
          /\ ttl(store, k, now).ret <= obs.n
          /\ (last.op = "ttl" /\ last.key = k) => last.ret <= obs.n
          /\ now > obs.at + obs.n * TicksPerSec =>
                /\ get(store, k, now).ret = nullopt
                /\ ttl(store, k, now).ret = 0 - 2
                /\ (last.op = "ttl" /\ last.key = k) => last.ret = 0 - 2
                /\ (last.op = "get" /\ last.key = k) => last.ret = nullopt

\* ttl answered -2 for a key set with a TTL later than the start of the clock,
\* after its deadline
C12_Witness ==
    /\ obs.on
    /\ obs.n >= 1
    /\ obs.at > 0
    /\ now > obs.at + obs.n * TicksPerSec
    /\ last.op = "ttl"
    /\ last.pre = "expired"
    /\ last.ret = 0 - 2

\* C13: ttl(k) returns -2 exactly when k is absent or expired, -1 exactly when
\* k is present with no deadline, and otherwise the whole seconds left to the
\* deadline, rounded down and never negative
C13_TtlValues ==
    \A k \in FocusKeys :
       LET r == ttl(store, k, now).ret
           pre == Pre(store, k, now)
       IN  /\ (r = 0 - 2) <=> (pre \in {"absent", "expired"})
           /\ (r = 0 - 1) <=>
                 (pre \notin {"absent", "expired"} /\ store[k].expiry = nullopt)
           /\ (pre \notin {"absent", "expired"} /\ store[k].expiry # nullopt) =>
                 /\ r = (store[k].expiry[1] - now) \div TicksPerSec
                 /\ r >= 0
           /\ r < 0 => r \in {0 - 1, 0 - 2}

\* key k is gone from store s: exists is false, type is absent, keys() lacks it
Gone(s, k) ==
    /\ ~Find(s, k)
    /\ ~exists(s, k, now).ret
    /\ type(s, k, now).ret = nullopt
    /\ \A order \in Orders(s) : k \notin Range(keys(s, now, order).ret)

\* C14: whenever lpop or rpop removes the last element of a list, srem the
\* last member of a set or hdel the last field of a hash, the same operation
\* deletes the key: afterwards exists(k) is false, type(k) is absent and k is
\* not among keys()
C14_EmptyingDeletes ==
    /\ \A k \in FocusKeys :
          /\ (Pre(store, k, now) = ValueType_LIST
                /\ Len(store[k].data.list) = 1) =>
                /\ lpop(store, k, now).ret = Some(store[k].data.list[1])
                /\ Gone(lpop(store, k, now).store, k)
                /\ rpop(store, k, now).ret = Some(store[k].data.list[1])
                /\ Gone(rpop(store, k, now).store, k)
          /\ \A b \in MemberBatches :
                (Pre(store, k, now) = ValueType_SET
                   /\ store[k].data.set # {}
                   /\ store[k].data.set \subseteq Range(b)) =>
                   /\ srem(store, k, b, now).ret = Cardinality(store[k].data.set)
                   /\ Gone(srem(store, k, b, now).store, k)
          /\ \A b \in MemberBatches :
                (Pre(store, k, now) = ValueType_HASH
                   /\ DOMAIN store[k].data.hash # {}
                   /\ DOMAIN store[k].data.hash \subseteq Range(b)) =>
                   /\ hdel(store, k, b, now).ret =
                         Cardinality(DOMAIN store[k].data.hash)
                   /\ Gone(hdel(store, k, b, now).store, k)
    /\ (last.op \in {"lpop", "rpop"} /\ last.ret # nullopt) =>
          \/ Gone(store, last.key)
          \/ store[last.key].data.list # << >>
    /\ (last.op = "srem" /\ last.ret > 0) =>
          \/ Gone(store, last.key)
          \/ store[last.key].data.set # {}
    /\ (last.op = "hdel" /\ last.ret > 0) =>
          \/ Gone(store, last.key)
          \/ DOMAIN store[last.key].data.hash # {}

\* srem removed the two members a set had, and the key is gone
C14_Witness ==
    /\ last.op = "srem"
    /\ last.pre = ValueType_SET
    /\ last.ret = 2
    /\ Gone(store, last.key)

\* C15: no key that is present holds an empty list, set or hash, also after
\* lpush, rpush or sadd called with an empty list of values
C15_NoEmptyContainer ==
    \A k \in DOMAIN store :
       /\ getType(store[k]) = ValueType_LIST => store[k].data.list # << >>
       /\ getType(store[k]) = ValueType_SET => store[k].data.set # {}
       /\ getType(store[k]) = ValueType_HASH => DOMAIN store[k].data.hash # {}

\* index i of a list of n elements, counted from the end when negative and
\* then brought into 0 .. n - 1
Clamped(i, n) == Max(0, Min(IF i < 0 THEN n + i ELSE i, n - 1))

\* C16: on a non-empty list of n elements lrange(k, i, j) counts a negative
\* index from the end (n + i), clamps both bounds into 0 .. n - 1, returns
\* nothing when the clamped start lies after the clamped stop and otherwise
\* the elements from start to stop inclusive; lrange(k, 0, -1) is the whole list
C16_RangeClamps ==
    \A k \in FocusKeys :
       (Pre(store, k, now) = ValueType_LIST /\ store[k].data.list # << >>) =>
          LET list == store[k].data.list
              n == Len(list)
          IN  /\ \A i \in WideIdx, j \in WideIdx, junk \in {0} \cup Members :
                    LET r == lrange(store, k, i, j, now, junk) IN
                    /\ r.ret = IF Clamped(i, n) > Clamped(j, n) THEN << >>
                               ELSE SubSeq(list, Clamped(i, n) + 1,
                                           Clamped(j, n) + 1)
                    /\ SameStore(r.store, store)
              /\ lrange(store, k, 0, 0 - 1, now, 0).ret = list
              /\ (last.op = "lrange" /\ last.key = k) =>
                    \E a \in 1 .. n, b \in 0 .. n : last.ret = SubSeq(list, a, b)

\* lrange returned all three elements of a list
C16_Witness ==
    /\ last.op = "lrange"
    /\ last.pre = ValueType_LIST
    /\ Len(last.ret) = MaxListLen
    /\ last.ret = store[last.key].data.list
    /\ last.ret[1] # last.ret[MaxListLen]

\* C17: lrange with a start at or beyond the end of the list returns nothing:
\* start >= llen(k) gives the empty list, as lrange("L", 5, 10) on three elements
C17_RangeBeyondEnd ==
    \A k \in FocusKeys :
       (Pre(store, k, now) = ValueType_LIST /\ store[k].data.list # << >>) =>
          \A i \in WideIdx, j \in WideIdx, junk \in {0} \cup Members :
             i >= llen(store, k, now).ret =>
                lrange(store, k, i, j, now, junk).ret = << >>

\* C18: sadd returns the number of members newly inserted, the cardinality
\* after minus the cardinality before (0 for an absent or expired key), also
\* for a batch that repeats a member, and the members afterwards are the
\* union of those before and the batch
C18_SAddCountsNew ==
    /\ \A k \in FocusKeys, b \in MemberBatches :
          Pre(store, k, now) \in {"absent", "expired", ValueType_SET} =>
             LET r == sadd(store, k, b, now) IN
             /\ r.ret = scard(r.store, k, now).ret - scard(store, k, now).ret
             /\ smembers(r.store, k, now).ret =
                   smembers(store, k, now).ret \cup Range(b)
             /\ r.ret = Cardinality(Range(b) \ smembers(store, k, now).ret)
    /\ LET r1 == sadd(EmptyStore, 1, <<1, 2>>, now)
           r2 == sadd(r1.store, 1, <<2, 3>>, now)
       IN  /\ r1.ret = 2
           /\ r2.ret = 1
           /\ smembers(r2.store, 1, now).ret = {1, 2, 3}
    /\ (last.op = "sadd" /\ last.pre \in {"absent", "expired"}) =>
          last.ret = Cardinality(store[last.key].data.set)
    /\ (last.op = "sadd" /\ last.pre = ValueType_SET) =>
          last.ret <= Cardinality(store[last.key].data.set)

\* sadd of two members to a set of two added one: the set now has three
C18_Witness ==
    /\ last.op = "sadd"
    /\ last.pre = ValueType_SET
    /\ last.ret = 1
    /\ Cardinality(store[last.key].data.set) = NumMembers

\* the variant each variant-specific operation works on
VariantOf(op) ==
    CASE op = "get" -> ValueType_STRING
      [] op \in {"lpush", "rpush", "lpop", "rpop", "lrange", "llen"} ->
            ValueType_LIST
      [] op \in {"sadd", "srem", "sismember", "smembers", "scard"} ->
            ValueType_SET
      [] op \in {"hset", "hget", "hdel", "hexists", "hgetall", "hlen"} ->
            ValueType_HASH

VariantWrites ==
    {"lpush", "rpush", "lpop", "rpop", "sadd", "srem", "hset", "hdel"}

VariantReads ==
    {"get", "lrange", "llen", "sismember", "smembers", "scard", "hget",
     "hexists", "hgetall", "hlen"}

\* what a variant-specific write returns when it does nothing
NoOpRet(op) ==
    CASE op \in {"lpop", "rpop"} -> nullopt
      [] op = "hset" -> FALSE
      [] OTHER -> 0

\* C19: on a key that is present, not expired and of another variant, lpush
\* and rpush return 0, lpop and rpop return no value, sadd and srem return 0,
\* hset returns false and hdel returns 0, and the whole store stays as it was
C19_TypeMismatchNoOp ==
    /\ [](\A k \in FocusKeys :
            Pre(store, k, now) \in ValueType =>
               /\ Pre(store, k, now) # ValueType_LIST =>
                     /\ \A b \in MemberBatches :
                           /\ lpush(store, k, b, now) = R(store, 0)
                           /\ rpush(store, k, b, now) = R(store, 0)
                     /\ lpop(store, k, now) = R(store, nullopt)
                     /\ rpop(store, k, now) = R(store, nullopt)
               /\ Pre(store, k, now) # ValueType_SET =>
                     \A b \in MemberBatches :
                        /\ sadd(store, k, b, now) = R(store, 0)
                        /\ srem(store, k, b, now) = R(store, 0)
               /\ Pre(store, k, now) # ValueType_HASH =>
                     /\ \A f \in Members, v \in Vals :
                           hset(store, k, f, v, now) = R(store, FALSE)
                     /\ \A b \in MemberBatches :
                           hdel(store, k, b, now) = R(store, 0))
    /\ [][(/\ last.op = "idle"
           /\ last'.op \in VariantWrites
           /\ last'.pre \in ValueType
           /\ last'.pre # VariantOf(last'.op)) =>
             /\ last'.ret = NoOpRet(last'.op)
             /\ SameStore(store, store')]_vars

\* hset was called on a key holding a list, returned false and left the list
C19_Witness ==
    /\ last.op = "hset"
    /\ last.pre = ValueType_LIST
    /\ last.ret = FALSE
    /\ getType(store[last.key]) = ValueType_LIST
    /\ Len(store[last.key].data.list) = MaxListLen

\* C20: every variant-specific read (get, lrange, llen, sismember, smembers,
\* scard, hget, hexists, hgetall, hlen) returns the same absent, empty, false
\* or zero value for a key never set, an expired key and a key of another
\* variant, and turns a value of one variant into no other
C20_ReadsCollapse ==
    /\ \A k \in FocusKeys :
          LET pre == Pre(store, k, now)
              Off(v) == pre \in {"absent", "expired"} \cup (ValueType \ {v})
          IN  /\ Off(ValueType_STRING) => get(store, k, now).ret = nullopt
              /\ Off(ValueType_LIST) =>
                    /\ \A i \in WideIdx, j \in WideIdx, junk \in {0} \cup Members :
                          lrange(store, k, i, j, now, junk).ret = << >>
                    /\ llen(store, k, now).ret = 0
              /\ Off(ValueType_SET) =>
                    /\ \A m \in Members : ~sismember(store, k, m, now).ret
                    /\ smembers(store, k, now).ret = {}
                    /\ scard(store, k, now).ret = 0
              /\ Off(ValueType_HASH) =>
                    /\ \A f \in Members :
                          /\ hget(store, k, f, now).ret = nullopt
                          /\ ~hexists(store, k, f, now).ret
                    /\ DOMAIN hgetall(store, k, now).ret = {}
                    /\ hlen(store, k, now).ret = 0
    /\ (last.op \in VariantReads /\ last.pre # VariantOf(last.op)) =>
          last.ret = AbsentRet(last.op)

\* llen answered 0 for a key that holds a set of three members
C20_Witness ==
    /\ last.op = "llen"
    /\ last.pre = ValueType_SET
    /\ last.ret = 0
    /\ Cardinality(store[last.key].data.set) = NumMembers

\* C21: set(k, v, ttl) always succeeds and replaces whatever k held, of any
\* variant: afterwards type(k) is STRING, get(k) is v, nothing of an old list,
\* set or hash remains, and the old deadline is gone: the deadline is
\* now + ttl when ttl > 0 and absent otherwise
C21_SetReplaces ==
    /\ \A k \in FocusKeys, v \in Vals, s \in Ttls :
          LET r == set(store, k, v, s, now) IN
          /\ r.ret
          /\ type(r.store, k, now).ret = Some(ValueType_STRING)
          /\ get(r.store, k, now).ret = Some(v)
          /\ r.store[k] = RedisValueTtl(ValueType_STRING, v, s, now)
          /\ llen(r.store, k, now).ret = 0
          /\ smembers(r.store, k, now).ret = {}
          /\ DOMAIN hgetall(r.store, k, now).ret = {}
          /\ r.store[k].expiry =
                IF s > 0 THEN Some(now + s * TicksPerSec) ELSE nullopt
          /\ ttl(r.store, k, now).ret = IF s > 0 THEN s ELSE 0 - 1
    /\ last.op = "set" =>
          /\ last.ret
          /\ Find(store, last.key)
          /\ getType(store[last.key]) = ValueType_STRING
          /\ store[last.key].data.list = << >>
          /\ store[last.key].data.set = {}
          /\ DOMAIN store[last.key].data.hash = {}
          /\ store[last.key].expiry \in
                {nullopt} \cup {Some(now + s * TicksPerSec) : s \in 1 .. MaxTtl}

\* set with a TTL replaced a hash that had been there for a second
C21_Witness ==
    /\ last.op = "set"
    /\ last.pre = ValueType_HASH
    /\ now > 0
    /\ getType(store[last.key]) = ValueType_STRING
    /\ store[last.key].expiry = Some(now + MaxTtl * TicksPerSec)

\* C22: on a key never set or past its deadline, whatever the expired entry
\* held, lpush, rpush, sadd and hset create a fresh entry of their own variant
\* holding only the values given and nothing of the expired entry, and return
\* the new length, the number added, true
C22_AbsentKeyCreation ==
    /\ \A k \in FocusKeys :
          Pre(store, k, now) \in {"absent", "expired"} =>
             /\ \A b \in MemberBatches :
                   /\ lpush(store, k, b, now) =
                         R(Put(EmptyStore, k, RedisValue(ValueType_LIST, Reverse(b))),
                           Len(b))
                   /\ rpush(store, k, b, now) =
                         R(Put(EmptyStore, k, RedisValue(ValueType_LIST, b)), Len(b))
                   /\ sadd(store, k, b, now) =
                         R(Put(EmptyStore, k, RedisValue(ValueType_SET, Range(b))),
                           Cardinality(Range(b)))
             /\ \A f \in Members, v \in Vals :
                   hset(store, k, f, v, now) =
                      R(Put(EmptyStore, k,
                            RedisValue(ValueType_HASH, HashPut(EmptyHash, f, v))),
                        TRUE)
    /\ (last.op \in {"lpush", "rpush", "sadd", "hset"}
          /\ last.pre \in {"absent", "expired"}) =>
          /\ getType(store[last.key]) = VariantOf(last.op)
          /\ store[last.key].expiry = nullopt
          /\ last.op \in {"lpush", "rpush"} =>
                last.ret = Len(store[last.key].data.list)
          /\ last.op = "sadd" =>
                last.ret = Cardinality(store[last.key].data.set)
          /\ last.op = "hset" =>
                last.ret /\ Cardinality(DOMAIN store[last.key].data.hash) = 1
          /\ store[last.key].data \in
                {RedisData(ValueType_LIST, store[last.key].data.list),
                 RedisData(ValueType_SET, store[last.key].data.set),
                 RedisData(ValueType_HASH, store[last.key].data.hash)}

\* rpush of two values on a key whose expired entry was a hash made a list of
\* just these two
C22_Witness ==
    /\ last.op = "rpush"
    /\ last.pre = "expired"
    /\ last.tag = ValueType_HASH
    /\ last.ret = MaxArgs
    /\ getType(store[last.key]) = ValueType_LIST
    /\ Len(store[last.key].data.list) = MaxArgs

\* the list a client finds at k: empty when k is absent, expired or no list
ListOf(s, k) ==
    IF Pre(s, k, now) = ValueType_LIST THEN s[k].data.list ELSE << >>

\* the store after lpush(k, [values[i]]), lpush(k, [values[i + 1]]), ...
RECURSIVE LPushEach(_, _, _, _)
LPushEach(s, k, values, i) ==
    IF i > Len(values) THEN s
    ELSE LPushEach(lpush(s, k, <<values[i]>>, now).store, k, values, i + 1)

\* C23: lpush(k, [v1..vn]) gives the list that lpush(k, [v1]), lpush(k, [v2]),
\* ... lpush(k, [vn]) give, both when it creates the list and when it extends
\* one: [x, y] pushed to the left of [a, b] yields [y, x, a, b]
C23_LPushBatchAsSingles ==
    /\ \A k \in FocusKeys, b \in MemberBatches :
          /\ ListOf(lpush(store, k, b, now).store, k) =
                ListOf(LPushEach(store, k, b, 1), k)
          /\ b # << >> =>
                /\ SameStore(lpush(store, k, b, now).store,
                             LPushEach(store, k, b, 1))
                /\ Pre(store, k, now) \in {"absent", "expired", ValueType_LIST} =>
                      ListOf(lpush(store, k, b, now).store, k) =
                         Reverse(b) \o ListOf(store, k)
    /\ LET s0 == rpush(EmptyStore, 1, <<1, 2>>, now).store
           r == lpush(s0, 1, <<3, 4>>, now)
       IN  /\ r.store[1].data.list = <<4, 3, 1, 2>>
           /\ r.ret = 4

\* lpush onto a list left [3, 2, 1], the last value pushed at the head
C23_Witness ==
    /\ last.op = "lpush"
    /\ last.pre = ValueType_LIST
    /\ last.ret = 3
    /\ store[last.key].data.list = <<3, 2, 1>>

\* C24: rpush(k, values) appends the batch at the tail in the order given and
\* leaves the elements already there and their order alone; lpush and rpush
\* return the new length: llen(k) right after the call, the old length plus
\* the size of the batch
C24_PushReturnsLength ==
    /\ \A k \in FocusKeys, b \in MemberBatches :
          Pre(store, k, now) \in {"absent", "expired", ValueType_LIST} =>
             LET old == ListOf(store, k)
                 r == rpush(store, k, b, now)
                 l == lpush(store, k, b, now)
             IN  /\ ListOf(r.store, k) = old \o b
                 /\ r.ret = Len(old) + Len(b)
                 /\ r.ret = llen(r.store, k, now).ret
                 /\ l.ret = Len(old) + Len(b)
                 /\ l.ret = llen(l.store, k, now).ret
    /\ (last.op \in {"lpush", "rpush"}
          /\ last.pre \in {"absent", "expired", ValueType_LIST}) =>
          /\ last.ret = Len(store[last.key].data.list)
          /\ last.ret = llen(store, last.key, now).ret

\* rpush onto a list left [1, 2, 3] and returned 3
C24_Witness ==
    /\ last.op = "rpush"
    /\ last.pre = ValueType_LIST
    /\ last.ret = 3
    /\ store[last.key].data.list = <<1, 2, 3>>

\* the values n calls of lpop(k) return one after another, and the store left
RECURSIVE LPopEach(_, _, _)
LPopEach(s, k, n) ==
    IF n = 0 THEN [store |-> s, rets |-> << >>]
    ELSE LET r == lpop(s, k, now)
             rest == LPopEach(r.store, k, n - 1)
         IN  [store |-> rest.store, rets |-> <<r.ret>> \o rest.rets]

\* C25: on a present, unexpired, non-empty list lpop returns and removes the
\* first element and rpop the last one, the other elements keep their order
\* and llen drops by one; rpush of v1..vn on an absent key and then n calls
\* of lpop return v1..vn in this order and leave the key absent
C25_PopEnds ==
    /\ \A k \in FocusKeys :
          (Pre(store, k, now) = ValueType_LIST /\ store[k].data.list # << >>) =>
             LET list == store[k].data.list
                 l == lpop(store, k, now)
                 r == rpop(store, k, now)
             IN  /\ l.ret = Some(Head(list))
                 /\ ListOf(l.store, k) = Tail(list)
                 /\ llen(l.store, k, now).ret = llen(store, k, now).ret - 1
                 /\ r.ret = Some(list[Len(list)])
                 /\ ListOf(r.store, k) = SubSeq(list, 1, Len(list) - 1)
                 /\ llen(r.store, k, now).ret = llen(store, k, now).ret - 1
    /\ \A k \in FocusKeys, b \in MemberBatches :
          (b # << >> /\ Pre(store, k, now) \in {"absent", "expired"}) =>
             LET p == LPopEach(rpush(store, k, b, now).store, k, Len(b))
             IN  /\ p.rets = [i \in 1 .. Len(b) |-> Some(b[i])]
                 /\ ~Find(p.store, k)
    /\ (last.op \in {"lpop", "rpop"} /\ last.ret # nullopt) =>
          /\ last.pre = ValueType_LIST
          /\ Find(store, last.key) =>
                Len(store[last.key].data.list) \in 1 .. MaxListLen - 1

\* rpop took 3 from the tail of [1, 2, 3]
C25_Witness ==
    /\ last.op = "rpop"
    /\ last.pre = ValueType_LIST
    /\ last.ret = Some(3)
    /\ Find(store, last.key)
    /\ store[last.key].data.list = <<1, 2>>

\* C26: srem(k, members) and hdel(k, fields) remove every member or field
\* given that is present, leave the others as they are, and return the number
\* removed: the cardinality before minus the cardinality after, a name that is
\* repeated in the batch or not present counting nothing
C26_RemoveCounts ==
    /\ \A k \in FocusKeys, b \in MemberBatches :
          /\ Pre(store, k, now) = ValueType_SET =>
                LET before == store[k].data.set
                    r == srem(store, k, b, now)
                IN  /\ smembers(r.store, k, now).ret = before \ Range(b)
                    /\ r.ret = Cardinality(before \cap Range(b))
                    /\ r.ret = scard(store, k, now).ret
                                  - scard(r.store, k, now).ret
          /\ Pre(store, k, now) = ValueType_HASH =>
                LET before == store[k].data.hash
                    r == hdel(store, k, b, now)
                    after == hgetall(r.store, k, now).ret
                IN  /\ DOMAIN after = (DOMAIN before) \ Range(b)
                    /\ \A f \in DOMAIN after : after[f] = before[f]
                    /\ r.ret = Cardinality((DOMAIN before) \cap Range(b))
                    /\ r.ret = hlen(store, k, now).ret
                                  - hlen(r.store, k, now).ret
    /\ (last.op = "srem" /\ last.pre = ValueType_SET) =>
          last.ret + scard(store, last.key, now).ret \in 0 .. NumMembers
    /\ (last.op = "hdel" /\ last.pre = ValueType_HASH) =>
          last.ret + hlen(store, last.key, now).ret \in 0 .. NumMembers
    /\ (last.op \in {"srem", "hdel"} /\ last.pre # VariantOf(last.op)) =>
          last.ret = 0

\* hdel removed one field of a hash of three
C26_Witness ==
    /\ last.op = "hdel"
    /\ last.pre = ValueType_HASH
    /\ last.ret = 1
    /\ Find(store, last.key)
    /\ Cardinality(DOMAIN store[last.key].data.hash) = 2

\* the times up to which the specifications look ahead
Future == now .. (MaxTicks + MaxSecs * TicksPerSec + 1)

\* C27: expire(k, s) on a present, unexpired key returns true and replaces the
\* deadline wholesale: now + s when s > 0, whatever it was, and none when
\* s <= 0, so that ttl(k) is -1 and the key never expires; on an absent or
\* expired key it returns false and sets no deadline
C27_ExpireReplacesDeadline ==
    /\ \A k \in FocusKeys, s \in TtlSecs :
          LET r == expire(store, k, s, now) IN
          IF Pre(store, k, now) \in {"absent", "expired"}
          THEN /\ ~r.ret
               /\ ~Find(r.store, k)
          ELSE /\ r.ret
               /\ r.store[k] =
                     [store[k] EXCEPT
                        !.expiry = IF s > 0 THEN Some(now + s * TicksPerSec)
                                   ELSE nullopt]
               /\ s > 0 => ttl(r.store, k, now).ret = s
               /\ s <= 0 =>
                     /\ ttl(r.store, k, now).ret = 0 - 1
                     /\ \A t \in Future :
                           /\ exists(r.store, k, t).ret
                           /\ ttl(r.store, k, t).ret = 0 - 1
    /\ last.op = "expire" =>
          /\ last.ret = (last.pre \notin {"absent", "expired"})
          /\ last.ret = Find(store, last.key)
          /\ last.ret =>
                store[last.key].expiry \in
                   {nullopt} \cup {Some(now + s * TicksPerSec) : s \in 1 .. MaxSecs}

\* expire gave a key that had been there for a while the longest deadline
C27_Witness ==
    /\ last.op = "expire"
    /\ last.pre = ValueType_STRING
    /\ last.ret
    /\ now > TicksPerSec
    /\ store[last.key].expiry = Some(now + MaxSecs * TicksPerSec)

\* C28: a TTL <= 0 given to set means no expiry: after set(k, v, t) with
\* t <= 0, negative t included, ttl(k) is -1 and k stays present however
\* much time passes, until it is overwritten, deleted, cleared or given a
\* deadline by expire
C28_NonPositiveTtlNoExpiry ==
    \A k \in FocusKeys :
       (obs.on /\ obs.n <= 0) =>
          /\ Find(store, k)
          /\ store[k].expiry = nullopt
          /\ \A t \in Future :
                /\ ttl(store, k, t).ret = 0 - 1
                /\ exists(store, k, t).ret
                /\ get(store, k, t).ret # nullopt
          /\ (last.op = "ttl" /\ last.key = k) => last.ret = 0 - 1
          /\ (last.op = "exists" /\ last.key = k) => last.ret
          /\ (last.op = "get" /\ last.key = k) => last.ret # nullopt

\* ttl answered -1 at the end of the clock for a key set at its start with a
\* negative TTL
C28_Witness ==
    /\ obs.on
    /\ obs.n < 0
    /\ obs.at = 0
    /\ now = MaxTicks
    /\ last.op = "ttl"
    /\ last.ret = 0 - 1

\* store s looks empty to every operation that asks for a key or for all keys
LooksEmpty(s) ==
    /\ DOMAIN s = {}
    /\ \A order \in Orders(s) :
          /\ size(s, now, order).ret = 0
          /\ keys(s, now, order).ret = << >>
    /\ \A k \in Keys :
          /\ ~exists(s, k, now).ret
          /\ type(s, k, now).ret = nullopt
          /\ ttl(s, k, now).ret = 0 - 2

\* C29: clear() empties the store unconditionally: right after it size() is
\* 0, keys() is empty, and exists(k) is false, type(k) absent and ttl(k) -2
\* for every key, whatever variants and deadlines were stored
C29_ClearEmpties ==
    /\ LooksEmpty(clear(store).store)
    /\ last.op = "clear" => LooksEmpty(store)

\* clear has run on a store that held something
C29_Witness ==
    /\ last.op = "clear"
    /\ last.pre = "stored"
    /\ DOMAIN store = {}
    /\ now > 0

\* the keys of s whose deadline has passed
ExpiredKeys(s) == {k \in DOMAIN s : EntryExpired(s[k], now)}

\* C30: cleanupExpired() removes exactly the entries whose deadline has passed
\* and returns their number: afterwards the mapping holds no expired entry,
\* every unexpired entry is as it was, size() and keys() are what they were
\* before the call, and a second call right away returns 0
C30_CleanupExact ==
    /\ \A order \in Orders(store) :
          LET r == cleanupExpired(store, now, order)
              left == SelectSeq(order, LAMBDA k : k \in DOMAIN r.store)
          IN  /\ r.ret = Cardinality(ExpiredKeys(store))
              /\ DOMAIN r.store = (DOMAIN store) \ ExpiredKeys(store)
              /\ ExpiredKeys(r.store) = {}
              /\ \A k \in DOMAIN r.store : r.store[k] = store[k]
              /\ keys(r.store, now, left).ret = keys(store, now, order).ret
              /\ \A o2 \in Orders(r.store) :
                    /\ size(r.store, now, o2).ret = size(store, now, order).ret
                    /\ Range(keys(r.store, now, o2).ret) =
                          Range(keys(store, now, order).ret)
                    /\ cleanupExpired(r.store, now, o2).ret = 0
    /\ last.op = "cleanupExpired" =>
          /\ ExpiredKeys(store) = {}
          /\ last.ret + Cardinality(DOMAIN store) \in 0 .. NumKeys

\* cleanupExpired removed one entry and left one whose deadline is to come
C30_Witness ==
    /\ last.op = "cleanupExpired"
    /\ last.ret = 1
    /\ Cardinality(DOMAIN store) = 1
    /\ \E k \in DOMAIN store : store[k].expiry # nullopt

\* C31: the sweep of expired entries (cleanupExpired) and the bulk import
\* (loadRawData) run only while the calling thread holds the exclusive permit,
\* so they never overlap an operation of another thread on the same store
C31_MaintenanceExclusive ==
    \A t \in Threads :
       pc[t] = "raw" =>
          /\ permit[t] = "exclusive"
          /\ \A u \in Threads \ {t} :
                /\ permit[u] = "none"
                /\ pc[u] \notin {"engine", "found", "unlock", "raw"}

\* the key k, live in s, is gone from s2 or has the variant it had
KeepsTag(s, s2, k) == Find(s2, k) => getType(s2[k]) = getType(s[k])

\* C32: between two consecutive states in which a key is present and
\* unexpired its type changes only if the step is set(k, ...); no list, set
\* or hash operation changes the variant of a present, unexpired entry
C32_TagImmutable ==
    /\ [](\A k \in FocusKeys :
            Pre(store, k, now) \in ValueType =>
               /\ \A b \in MemberBatches :
                     /\ KeepsTag(store, lpush(store, k, b, now).store, k)
                     /\ KeepsTag(store, rpush(store, k, b, now).store, k)
                     /\ KeepsTag(store, sadd(store, k, b, now).store, k)
                     /\ KeepsTag(store, srem(store, k, b, now).store, k)
                     /\ KeepsTag(store, hdel(store, k, b, now).store, k)
               /\ \A f \in Members, v \in Vals :
                     KeepsTag(store, hset(store, k, f, v, now).store, k)
               /\ KeepsTag(store, lpop(store, k, now).store, k)
               /\ KeepsTag(store, rpop(store, k, now).store, k)
               /\ \A s \in Ttls :
                     KeepsTag(store, expire(store, k, s, now).store, k))
    /\ [][\A k \in FocusKeys :
            (/\ Pre(store, k, now) \in ValueType
             /\ Pre(store', k, now') \in ValueType
             /\ getType(store'[k]) # getType(store[k])) =>
               /\ last'.op = "set"
               /\ last'.key = k]_vars

\* sadd was called on a live hash that carries a deadline, and it is a hash
C32_Witness ==
    /\ last.op = "sadd"
    /\ last.pre = ValueType_HASH
    /\ Pre(store, last.key, now) = ValueType_HASH
    /\ store[last.key].expiry # nullopt

\* the per-key operations that check expiry through isExpired and return on it
AccessOps ==
    {"get", "lpop", "rpop", "lrange", "llen", "srem", "sismember", "smembers",
     "scard", "hget", "hdel", "hexists", "hgetall", "hlen", "exists", "type",
     "expire"}

\* key k is not in the raw mapping of store s
Purged(s, k) == ~Find(getRawData(s), k)

\* C33: after get, lpop, rpop, lrange, llen, srem, sismember, smembers, scard,
\* hget, hdel, hexists, hgetall, hlen, exists, type or expire is called on a
\* key whose deadline has passed, the entry is no longer in the mapping that
\* getRawData() returns, while keys() and size() leave it stored
C33_LazyDeletion ==
    /\ [](\A k \in DOMAIN store :
            DeadlinePassed(store[k], now) =>
               /\ Purged(get(store, k, now).store, k)
               /\ Purged(lpop(store, k, now).store, k)
               /\ Purged(rpop(store, k, now).store, k)
               /\ \A i \in Idx, j \in Idx, junk \in Junk :
                     Purged(lrange(store, k, i, j, now, junk).store, k)
               /\ Purged(llen(store, k, now).store, k)
               /\ \A b \in Batches : Purged(srem(store, k, b, now).store, k)
               /\ \A m \in Elems : Purged(sismember(store, k, m, now).store, k)
               /\ Purged(smembers(store, k, now).store, k)
               /\ Purged(scard(store, k, now).store, k)
               /\ \A f \in Fields :
                     /\ Purged(hget(store, k, f, now).store, k)
                     /\ Purged(hexists(store, k, f, now).store, k)
               /\ \A b \in FieldBatches :
                     Purged(hdel(store, k, b, now).store, k)
               /\ Purged(hgetall(store, k, now).store, k)
               /\ Purged(hlen(store, k, now).store, k)
               /\ Purged(exists(store, k, now).store, k)
               /\ Purged(type(store, k, now).store, k)
               /\ \A s \in Ttls : Purged(expire(store, k, s, now).store, k)
               /\ \A order \in Orders(store) :
                     /\ SameStore(getRawData(keys(store, now, order).store), store)
                     /\ SameStore(getRawData(size(store, now, order).store), store))
    /\ []((last.op \in AccessOps /\ last.pre = "expired") =>
            Purged(store, last.key))
    /\ [][(last.op = "idle" /\ last'.op \in {"keys", "size"}) =>
             SameStore(store, store')]_vars

\* hgetall was called on an expired key, which is gone from the mapping,
\* while another expired entry is still stored
C33_Witness ==
    /\ last.op = "hgetall"
    /\ last.pre = "expired"
    /\ Purged(store, last.key)
    /\ \E k \in DOMAIN store : DeadlinePassed(store[k], now)

\* C34: every operation judges expiry the same way: at every instant, also at
\* now = deadline, ttl(k) returns -2 exactly when exists(k) returns false,
\* and keys() lists k exactly when exists(k) returns true
C34_ExpiryJudgedAlike ==
    \A k \in FocusKeys :
       /\ (ttl(store, k, now).ret = 0 - 2) <=> ~exists(store, k, now).ret
       /\ \A order \in Orders(store) :
             (k \in Range(keys(store, now, order).ret)) <=>
                exists(store, k, now).ret

\* sequence r is a run of consecutive elements of list
Contiguous(r, list) ==
    \E a \in 0 .. Len(list) :
       /\ a + Len(r) <= Len(list)
       /\ \A i \in 1 .. Len(r) : r[i] = list[a + i]

\* C35: lrange never reads outside the stored list: for every stored list,
\* also one created by a push with no values, and every start and stop, the
\* result is a contiguous sub-sequence of the list, no longer than llen(k)
C35_LRangeInsideList ==
    \A k \in FocusKeys :
       Pre(store, k, now) = ValueType_LIST =>
          \A start \in WideIdx, stop \in WideIdx, junk \in Junk :
             LET r == lrange(store, k, start, stop, now, junk).ret IN
             /\ Len(r) <= llen(store, k, now).ret
             /\ Contiguous(r, store[k].data.list)

\* key k, if still stored in s2, has the deadline it had in s
KeepsDeadline(s, s2, k) == Find(s2, k) => s2[k].expiry = s[k].expiry

\* key k, if stored in s2, has no deadline
NoDeadline(s2, k) == Find(s2, k) => s2[k].expiry = nullopt

\* C36: lpush, rpush, lpop, rpop, sadd, srem, hset and hdel on a present,
\* unexpired key that stays present leave its deadline unchanged (only set,
\* expire and deletion change it), and an entry freshly created by lpush,
\* rpush, sadd or hset has no deadline, also when it replaces an expired
\* entry that had one
C36_ContainerWritesKeepDeadline ==
    /\ [](\A k \in FocusKeys :
            /\ Pre(store, k, now) \in ValueType =>
                  /\ \A b \in MemberBatches :
                        /\ KeepsDeadline(store, lpush(store, k, b, now).store, k)
                        /\ KeepsDeadline(store, rpush(store, k, b, now).store, k)
                        /\ KeepsDeadline(store, sadd(store, k, b, now).store, k)
                        /\ KeepsDeadline(store, srem(store, k, b, now).store, k)
                        /\ KeepsDeadline(store, hdel(store, k, b, now).store, k)
                  /\ \A f \in Members, v \in Vals :
                        KeepsDeadline(store, hset(store, k, f, v, now).store, k)
                  /\ KeepsDeadline(store, lpop(store, k, now).store, k)
                  /\ KeepsDeadline(store, rpop(store, k, now).store, k)
            /\ Pre(store, k, now) \in {"absent", "expired"} =>
                  /\ \A b \in MemberBatches :
                        /\ NoDeadline(lpush(store, k, b, now).store, k)
                        /\ NoDeadline(rpush(store, k, b, now).store, k)
                        /\ NoDeadline(sadd(store, k, b, now).store, k)
                  /\ \A f \in Members, v \in Vals :
                        /\ NoDeadline(hset(store, k, f, v, now).store, k)
                        /\ Find(hset(store, k, f, v, now).store, k))
    /\ []((/\ last.op \in {"lpush", "rpush", "sadd", "hset"}
           /\ last.pre \in {"absent", "expired"}) => NoDeadline(store, last.key))
    /\ [][\A k \in FocusKeys :
             (/\ Pre(store, k, now) \in ValueType
              /\ Find(store', k)
              /\ store'[k].expiry # store[k].expiry)
             => (last'.op \in {"set", "expire"} /\ last'.key = k)]_vars

\* hset wrote a field into a live hash that has a deadline, and the deadline
\* is still there
C36_Witness ==
    /\ last.op = "hset"
    /\ last.pre = ValueType_HASH
    /\ last.ret = TRUE
    /\ Pre(store, last.key, now) = ValueType_HASH
    /\ store[last.key].expiry # nullopt

\* key k2 is stored in s2 exactly as it is in s, or in neither
Untouched(s, s2, k2) ==
    /\ Find(s2, k2) = Find(s, k2)
    /\ Find(s, k2) => SameEntry(s2[k2], s[k2])

\* C37: every single-key operation on key k (reads, writes, del, expire, ttl)
\* leaves the entry of every other key k2 unchanged in value, variant and
\* deadline, also when k2 is itself expired; only clear, cleanupExpired and
\* loadRawData touch more than one key
C37_KeyIsolation ==
    /\ [](\A k \in Keys : \A k2 \in Keys \ {k} :
            /\ \A v \in Vals, s \in Ttls :
                  Untouched(store, set(store, k, v, s, now).store, k2)
            /\ Untouched(store, get(store, k, now).store, k2)
            /\ \A b \in Batches :
                  /\ Untouched(store, lpush(store, k, b, now).store, k2)
                  /\ Untouched(store, rpush(store, k, b, now).store, k2)
                  /\ Untouched(store, sadd(store, k, b, now).store, k2)
                  /\ Untouched(store, srem(store, k, b, now).store, k2)
            /\ Untouched(store, lpop(store, k, now).store, k2)
            /\ Untouched(store, rpop(store, k, now).store, k2)
            /\ \A i \in Idx, j \in Idx, junk \in Junk :
                  Untouched(store, lrange(store, k, i, j, now, junk).store, k2)
            /\ Untouched(store, llen(store, k, now).store, k2)
            /\ \A m \in Elems :
                  Untouched(store, sismember(store, k, m, now).store, k2)
            /\ Untouched(store, smembers(store, k, now).store, k2)
            /\ Untouched(store, scard(store, k, now).store, k2)
            /\ \A f \in Fields :
                  /\ \A v \in Elems :
                        Untouched(store, hset(store, k, f, v, now).store, k2)
                  /\ Untouched(store, hget(store, k, f, now).store, k2)
                  /\ Untouched(store, hexists(store, k, f, now).store, k2)
            /\ \A b \in FieldBatches :
                  Untouched(store, hdel(store, k, b, now).store, k2)
            /\ Untouched(store, hgetall(store, k, now).store, k2)
            /\ Untouched(store, hlen(store, k, now).store, k2)
            /\ Untouched(store, remove(store, k).store, k2)
            /\ Untouched(store, exists(store, k, now).store, k2)
            /\ Untouched(store, type(store, k, now).store, k2)
            /\ \A s \in Ttls :
                  Untouched(store, expire(store, k, s, now).store, k2)
            /\ Untouched(store, ttl(store, k, now).store, k2))
    /\ [][\A k2 \in Keys :
             (/\ last.op = "idle"
              /\ last'.op \notin {"idle", "clear", "cleanupExpired"}
              /\ last'.key # k2)
             => Untouched(store, store', k2)]_vars

\* expire set a deadline on one key while another key, whose deadline has
\* passed, is still stored
C37_Witness ==
    /\ last.op = "expire"
    /\ last.ret = TRUE
    /\ Find(store, last.key)
    /\ \E k2 \in Keys \ {last.key} :
          Find(store, k2) /\ DeadlinePassed(store[k2], now)

\* result r of a read on store s changed nothing, and r2, the result of the
\* same read made again at once, returns the same
PureRead(s, r, r2) ==
    /\ SameStore(r.store, s)
    /\ r2.ret = r.ret

\* C38: get, lrange, llen, sismember, smembers, scard, hget, hexists, hgetall,
\* hlen, exists, type and ttl called on a key that is absent or present and
\* unexpired leave the store unchanged, keys() and size() leave the store
\* unchanged in every state, and repeating such a read with no time elapsed
\* returns the same result
C38_ReadsPure ==
    /\ \A k \in Keys :
          Pre(store, k, now) \in ValueType \cup {"absent"} =>
             /\ PureRead(store, get(store, k, now),
                          get(get(store, k, now).store, k, now))
             /\ \A i \in Idx, j \in Idx, junk \in Junk, junk2 \in Junk :
                   PureRead(store, lrange(store, k, i, j, now, junk),
                            lrange(lrange(store, k, i, j, now, junk).store,
                                   k, i, j, now, junk2))
             /\ PureRead(store, llen(store, k, now),
                          llen(llen(store, k, now).store, k, now))
             /\ \A m \in Elems :
                   PureRead(store, sismember(store, k, m, now),
                            sismember(sismember(store, k, m, now).store,
                                      k, m, now))
             /\ PureRead(store, smembers(store, k, now),
                          smembers(smembers(store, k, now).store, k, now))
             /\ PureRead(store, scard(store, k, now),
                          scard(scard(store, k, now).store, k, now))
             /\ \A f \in Fields :
                   /\ PureRead(store, hget(store, k, f, now),
                                hget(hget(store, k, f, now).store, k, f, now))
                   /\ PureRead(store, hexists(store, k, f, now),
                                hexists(hexists(store, k, f, now).store,
                                        k, f, now))
             /\ PureRead(store, hgetall(store, k, now),
                          hgetall(hgetall(store, k, now).store, k, now))
             /\ PureRead(store, hlen(store, k, now),
                          hlen(hlen(store, k, now).store, k, now))
             /\ PureRead(store, exists(store, k, now),
                          exists(exists(store, k, now).store, k, now))
             /\ PureRead(store, type(store, k, now),
                          type(type(store, k, now).store, k, now))
             /\ PureRead(store, ttl(store, k, now),
                          ttl(ttl(store, k, now).store, k, now))
    /\ \A order \in Orders(store) :
          /\ PureRead(store, keys(store, now, order),
                       keys(keys(store, now, order).store, now, order))
          /\ PureRead(store, size(store, now, order),
                       size(size(store, now, order).store, now, order))

\* what the client expects of hget(k, f) from its notes, and of hlen(k) around
\* every hset(k, f, v) that could be made now
FieldsAsNoted(k) ==
    /\ \A f \in HFields :
          hget(store, k, f, now).ret =
             IF f \in DOMAIN obs.m THEN Some(obs.m[f]) ELSE nullopt
    /\ hlen(store, k, now).ret = Cardinality(DOMAIN obs.m)

HLenStep(k) ==
    \A f \in HFields, v \in Vals :
       Pre(store, k, now) \in {"absent", "expired", ValueType_HASH} =>
          LET r == hset(store, k, f, v, now) IN
          /\ r.ret
          /\ hget(r.store, k, f, now).ret = Some(v)
          /\ hlen(r.store, k, now).ret =
                hlen(store, k, now).ret
                   + (IF hexists(store, k, f, now).ret THEN 0 ELSE 1)

\* C11 as stated: after any sequence of hset calls on a key that was absent,
\* expired or a hash, hget returns the latest value written to each field and
\* nothing for a field never written; an overwrite keeps hlen and a new field
\* raises it by one. Nothing is said of the deadline the hash may carry.
C11_AsStated ==
    \A k \in FocusKeys :
       /\ obs.on => FieldsAsNoted(k)
       /\ HLenStep(k)

\* C11: the same, for reads made while the key has not passed its deadline
C11_FieldMapRoundTrip ==
    \A k \in FocusKeys :
       /\ (obs.on /\ Pre(store, k, now) = ValueType_HASH) => FieldsAsNoted(k)
       /\ HLenStep(k)

\* hget read a field of a hash that carries a deadline, after the client wrote
\* two fields with different values
C11_Witness ==
    /\ obs.on
    /\ DOMAIN obs.m = HFields
    /\ obs.m[1] # obs.m[2]
    /\ last.op = "hget"
    /\ last.pre = ValueType_HASH
    /\ last.ret # nullopt
    /\ \E k \in FocusKeys : store[k].expiry # nullopt

\* C7: a key whose deadline has passed is logically absent, stored or not:
\* get, hget and type return nothing, lrange, smembers and hgetall return
\* empty, llen, scard and hlen return 0, sismember, hexists and exists return
\* false and ttl returns -2, both for every read that was made on such a key
\* and for every read that could be made in the current state.
C7_LogicalAbsence ==
    /\ (last.op \in ExpiryReads /\ last.pre = "expired")
          => last.ret = AbsentRet(last.op)
    /\ \A k \in DOMAIN store :
          DeadlinePassed(store[k], now) =>
             /\ get(store, k, now).ret = nullopt
             /\ \A f \in Fields : hget(store, k, f, now).ret = nullopt
             /\ \A i \in Idx, j \in Idx, junk \in Junk :
                   lrange(store, k, i, j, now, junk).ret = << >>
             /\ smembers(store, k, now).ret = {}
             /\ DOMAIN hgetall(store, k, now).ret = {}
             /\ llen(store, k, now).ret = 0
             /\ scard(store, k, now).ret = 0
             /\ hlen(store, k, now).ret = 0
             /\ \A m \in Elems : ~sismember(store, k, m, now).ret
             /\ \A f \in Fields : ~hexists(store, k, f, now).ret
             /\ ~exists(store, k, now).ret
             /\ type(store, k, now).ret = nullopt
             /\ ttl(store, k, now).ret = 0 - 2

\* an expired scalar, still stored, was read by get, which found nothing
C7_Witness ==
    /\ last.op = "get"
    /\ last.pre = "expired"
    /\ last.tag = ValueType_STRING
    /\ last.ret = nullopt

\* C8: del(k) returns true exactly when exists(k) would have returned true
\* just before the call (so false for a key past its deadline that is still
\* stored), and the key is absent afterwards.
C8_DelReturnsVisible ==
    last.op = "del" =>
       /\ last.ret = (last.pre \notin {"absent", "expired"})
       /\ ~Find(store, last.key)

\* C9: at every time size() is the number of keys keys() returns, keys() has
\* no duplicates, and no key whose deadline has passed is counted or listed,
\* whatever order the mapping is iterated in.
C9_SizeEqualsKeys ==
    \A o1 \in Orders(store), o2 \in Orders(store) :
       LET ks == keys(store, now, o1).ret IN
       /\ size(store, now, o2).ret = Len(ks)
       /\ \A i \in 1 .. Len(ks), j \in 1 .. Len(ks) : i # j => ks[i] # ks[j]
       /\ \A i \in 1 .. Len(ks) : ~DeadlinePassed(store[ks[i]], now)
       /\ Len(ks) = Cardinality({k \in DOMAIN store :
                                    ~DeadlinePassed(store[k], now)})

\* size() counted one live key while an expired entry was still stored
C9_Witness ==
    /\ last.op = "size"
    /\ last.ret = 1
    /\ Cardinality(DOMAIN store) = 2
    /\ \E k \in DOMAIN store : DeadlinePassed(store[k], now)

\* C10: after set(k, v, 0), with no later write to k, get(k) returns v,
\* whatever stood at k before the set.
C10_ScalarRoundTrip ==
    (last.op = "get" /\ lastSet[last.key] # << >>)
       => last.ret = Some(lastSet[last.key][1])

\* get returned the value set over an expired entry of another variant
C10_Witness ==
    /\ last.op = "get"
    /\ lastSet[last.key] # << >>
    /\ lastSet[last.key][2] = "expired"
    /\ last.ret = Some(2)

=============================================================================
